---- MODULE Spec2Model ----
(***************************************************************************)
(* Model of the QR / vision safety pipeline:                               *)
(*   smoothing.py       BoundingBoxSmoother (persistence + EMA)            *)
(*   camera_manager.py  CameraWorker.run (capture loop), _roboflow_worker  *)
(*                      (classifier thread), the enable setters,           *)
(*                      CameraManager                                      *)
(*   ui/main_window.py  MainWindow handlers (distance override)            *)
(*   roboflow_client.py RoboflowClient.detect, _parse_response             *)
(*   distance_sensor.py DistanceSensor (reader thread, sliding minimum)    *)
(*   ui/controls.py     TrackingButton (tracking session and its log)      *)
(*   visualize_tracking.py  the stop column drawn from a tracking log      *)
(*                                                                         *)
(* Numbers.  Python floats are modelled by exact fixed-point integers:     *)
(* a coordinate c pixels is the integer c * Unit, alpha is the integer     *)
(* alpha * AlphaDen.  A blend is taken only when its result is an exact    *)
(* multiple of 1/Unit (Exact), so no rounding is ever invented.            *)
(* SpecFloat alone models the rounding of float arithmetic, on FloatBits   *)
(* significant bits.                                                       *)
(***************************************************************************)
EXTENDS Integers, Sequences, FiniteSets, TLC

VARIABLES
    \* BoundingBoxSmoother (CameraWorker._smoother)
    smoother,
    \* CameraManager: [_worker, _roboflow_enabled, _qr_enabled]; SpecRestart
    \* and SpecManager add bookkeeping fields base and ignored
    mgr,
    \* CameraWorker fields
    _running, _roboflow_enabled, _qr_enabled, _roboflow_frame_counter,
    _classification_detected, _classification_bbox,
    _frames_without_classification,
    _roboflow_queue, _roboflow_thread_running,
    _mutex, _roboflow_result_lock,
    \* the three threads' positions and locals
    cap, wrk, ui,
    \* MainWindow: queued frame_ready events and fields
    pending, _current_distance, _distance_threshold, safety_banner,
    \* bookkeeping that no code reads
    nframes, events, distance_seen, delivered, cls_stale, sm, camera,
    \* error_occurred signals the current worker has emitted
    error_occurred,
    \* the classifier client (CameraWorker._roboflow_client)
    client,
    \* DistanceSensor, its reader threads and the signals it has emitted
    sensor,
    \* TrackingButton
    tracking,
    \* visualize_tracking.py: the loaded log and what is drawn from it
    viz

\* ------------------------------------------------------------------ bounds
MaxBlend == 2          \* consecutive exact blends representable in a coordinate
MaxMisses == 7         \* cap on the smoother's miss counter in SpecSmoother
MaxPersistence == 5    \* largest persistence_frames tried in SpecSmoother
MaxDetections == 4     \* update() calls carrying a detection in SpecSmoother
MaxClassifierFrames == 12  \* frames the camera yields in SpecClassifier
MaxDecoded == 3        \* pairs the decoder returns for a frame in SpecDetector
MaxReaders == 2        \* reader threads a DistanceSensor creates in SpecSensor
MaxReadings == 6       \* readings parsed from the serial port in SpecSensor
MaxRows == 2           \* rows of the log given to the visualizer in SpecVisualizer
MaxTarget == 3         \* largest target_frames of a TrackingButton in SpecTracking
MaxCalls == 2          \* calls of detect() in SpecClient
FloatBits == 4         \* significand bits of the floats of SpecFloat (53 in Python)
FracBits == 10         \* SpecFloat holds a float as a multiple of 2^-FracBits
MaxFloatUpdates == 4   \* update() calls in SpecFloat

\* ------------------------------------------------------- program constants
window_size == 5                   \* DistanceSensor.window_size
TargetFrames == 2000               \* TrackingButton(target_frames=2000)
AlphaDen == 100                    \* the slider's resolution: alpha = value / 100.0
DefaultAlpha == 60                 \* smoothing_alpha=0.6
PipelinePersistence == 5           \* persistence_frames=5
TARGET_PAYLOAD == "ROBOT_R1"

Unit == AlphaDen ^ MaxBlend

None == [tag |-> "None"]

\* None where the other values are strings (Optional[str]).
NoneStr == "<None>"

\* ------------------------------------------------------ smoothing.py: data
BoundingBox(x, y, width, height) ==
    [x |-> x, y |-> y, width |-> width, height |-> height]

DetectedQR(payload, bounding_box) ==
    [payload |-> payload, bounding_box |-> bounding_box]

\* A box given in whole pixels, as the model's fixed-point box.
PixelBox(x, y, width, height) ==
    BoundingBox(x * Unit, y * Unit, width * Unit, height * Unit)

\* BoundingBoxSmoother.__init__
NewSmoother(persistence_frames, smoothing_alpha) ==
    [persistence_frames |-> persistence_frames,
     smoothing_alpha |-> smoothing_alpha,
     smoothed_box |-> None,
     frames_without_detection |-> 0,
     last_payload |-> NoneStr]

Max(a, b) == IF a >= b THEN a ELSE b
Min(a, b) == IF a <= b THEN a ELSE b

\* Mutant of set_alpha: the value is stored as given.
set_alpha_unclamped(s, value) ==
    [s EXCEPT !.smoothing_alpha = value]

\* alpha.setter: self.smoothing_alpha = max(0.0, min(1.0, value))
set_alpha(s, value) ==
    [s EXCEPT !.smoothing_alpha = Max(0, Min(AlphaDen, value))]

\* One coordinate of the exponential moving average, times AlphaDen.
BlendNum(alpha, new, old) == alpha * new + (AlphaDen - alpha) * old

Blend(alpha, new, old) == BlendNum(alpha, new, old) \div AlphaDen

\* The blend of new_box into the smoother is exactly representable.
Exact(s, new_box) ==
    IF s.smoothed_box = None
    THEN TRUE
    ELSE /\ BlendNum(s.smoothing_alpha, new_box.x, s.smoothed_box.x) % AlphaDen = 0
         /\ BlendNum(s.smoothing_alpha, new_box.y, s.smoothed_box.y) % AlphaDen = 0
         /\ BlendNum(s.smoothing_alpha, new_box.width, s.smoothed_box.width) % AlphaDen = 0
         /\ BlendNum(s.smoothing_alpha, new_box.height, s.smoothed_box.height) % AlphaDen = 0

\* Mutant of _smooth_box: alpha weighs the old box instead of the new one.
_smooth_box_swapped(s, new_box) ==
    IF s.smoothed_box = None
    THEN new_box
    ELSE BoundingBox(
           Blend(s.smoothing_alpha, s.smoothed_box.x, new_box.x),
           Blend(s.smoothing_alpha, s.smoothed_box.y, new_box.y),
           Blend(s.smoothing_alpha, s.smoothed_box.width, new_box.width),
           Blend(s.smoothing_alpha, s.smoothed_box.height, new_box.height))

\* _smooth_box: the box it returns, which is also the box it stores.
_smooth_box(s, new_box) ==
    IF s.smoothed_box = None
    THEN new_box
    ELSE BoundingBox(
           Blend(s.smoothing_alpha, new_box.x, s.smoothed_box.x),
           Blend(s.smoothing_alpha, new_box.y, s.smoothed_box.y),
           Blend(s.smoothing_alpha, new_box.width, s.smoothed_box.width),
           Blend(s.smoothing_alpha, new_box.height, s.smoothed_box.height))

\* Mutant of update: the persistence test written > instead of >=.
update_late_expiry(s, detection) ==
    IF detection # None
    THEN [s |-> [s EXCEPT !.frames_without_detection = 0,
                          !.last_payload = detection.payload,
                          !.smoothed_box = _smooth_box(s, detection.bounding_box)],
          ret |-> DetectedQR(detection.payload, _smooth_box(s, detection.bounding_box))]
    ELSE LET n == s.frames_without_detection + 1 IN
         IF n > s.persistence_frames
         THEN [s |-> [s EXCEPT !.frames_without_detection = n,
                               !.smoothed_box = None,
                               !.last_payload = NoneStr],
               ret |-> None]
         ELSE [s |-> [s EXCEPT !.frames_without_detection = n],
               ret |-> IF s.smoothed_box # None /\ s.last_payload # NoneStr
                       THEN DetectedQR(s.last_payload, s.smoothed_box)
                       ELSE None]

\* Mutant of update: a miss returns nothing at once, no hold-over.
update_no_hold(s, detection) ==
    IF detection # None
    THEN [s |-> [s EXCEPT !.frames_without_detection = 0,
                          !.last_payload = detection.payload,
                          !.smoothed_box = _smooth_box(s, detection.bounding_box)],
          ret |-> DetectedQR(detection.payload, _smooth_box(s, detection.bounding_box))]
    ELSE [s |-> [s EXCEPT !.frames_without_detection = s.frames_without_detection + 1,
                          !.smoothed_box = None,
                          !.last_payload = NoneStr],
          ret |-> None]

\* update: the smoother after the call (s) and the value returned (ret).
update(s, detection) ==
    IF detection # None
    THEN [s |-> [s EXCEPT !.frames_without_detection = 0,
                          !.last_payload = detection.payload,
                          !.smoothed_box = _smooth_box(s, detection.bounding_box)],
          ret |-> DetectedQR(detection.payload, _smooth_box(s, detection.bounding_box))]
    ELSE LET n == s.frames_without_detection + 1 IN
         IF n >= s.persistence_frames
         THEN [s |-> [s EXCEPT !.frames_without_detection = n,
                               !.smoothed_box = None,
                               !.last_payload = NoneStr],
               ret |-> None]
         ELSE [s |-> [s EXCEPT !.frames_without_detection = n],
               ret |-> IF s.smoothed_box # None /\ s.last_payload # NoneStr
                       THEN DetectedQR(s.last_payload, s.smoothed_box)
                       ELSE None]

\* Mutant of reset: the payload is kept.
reset_keep_payload(s) ==
    [s EXCEPT !.smoothed_box = None,
              !.frames_without_detection = 0]

\* Mutant of reset: the counter is cleared, the box and payload are kept.
reset_counter_only(s) ==
    [s EXCEPT !.frames_without_detection = 0]

\* reset
reset(s) ==
    [s EXCEPT !.smoothed_box = None,
              !.frames_without_detection = 0,
              !.last_payload = NoneStr]

\* -------------------------------------- smoothing.py in binary floating point
\* A float is held as the integer value * 2^FracBits.  Every operation
\* rounds its exact result to FloatBits significant bits, to nearest, ties
\* to even, as IEEE-754 arithmetic does with 53 bits.
FlOne == 2 ^ FracBits

\* The unit in the last place of num / den (in units of 2^-FracBits): the
\* least power of two w with num / (den * w) < 2^FloatBits.
RECURSIVE UlpFrom(_, _, _)
UlpFrom(num, den, w) ==
    IF num < den * w * 2 ^ FloatBits THEN w ELSE UlpFrom(num, den, 2 * w)

RoundAbs(num, den) ==
    LET w == UlpFrom(num, den, 1)
        q == num \div (den * w)
        r == num - q * den * w
    IN  IF 2 * r > den * w \/ (2 * r = den * w /\ q % 2 = 1)
        THEN (q + 1) * w
        ELSE q * w

\* The float nearest to num / den.
FlRound(num, den) ==
    IF num < 0 THEN -RoundAbs(-num, den) ELSE RoundAbs(num, den)

\* The result is zero or has FloatBits significant bits above 2^-FracBits:
\* no underflow, the rounding is the format's.
Normal(num, den) ==
    num = 0 \/ (IF num < 0 THEN -num ELSE num) >= den * 2 ^ (FloatBits - 1)

\* value / 100.0 for an integer value
FlPercent(value) == FlRound(value * FlOne, AlphaDen)

\* Mutant of BlendIeee: the old coordinate is added whole.
BlendIeee_undamped(alpha, new, old) ==
    FlRound(FlRound(alpha * new, FlOne) + old, 1)

\* Mutant of BlendIeee: alpha weighs the old coordinate.
BlendIeee_swapped(alpha, new, old) ==
    FlRound(FlRound(alpha * old, FlOne)
              + FlRound(FlRound(FlOne - alpha, 1) * new, FlOne), 1)

\* alpha * new + (1 - alpha) * old: the two products, the difference and
\* the sum are each rounded.
BlendIeee(alpha, new, old) ==
    FlRound(FlRound(alpha * new, FlOne)
              + FlRound(FlRound(FlOne - alpha, 1) * old, FlOne), 1)

\* Every rounding of the blend is in the normal range.
BlendNormal(alpha, new, old) ==
    /\ Normal(alpha * new, FlOne)
    /\ Normal(FlOne - alpha, 1)
    /\ Normal(FlRound(FlOne - alpha, 1) * old, FlOne)
    /\ Normal(FlRound(alpha * new, FlOne)
                 + FlRound(FlRound(FlOne - alpha, 1) * old, FlOne), 1)

Coordinates == {"x", "y", "width", "height"}

InRange(s, new_box) ==
    s.smoothed_box # None =>
        \A c \in Coordinates : BlendNormal(s.smoothing_alpha, new_box[c], s.smoothed_box[c])

_smooth_box_ieee(s, new_box) ==
    IF s.smoothed_box = None
    THEN new_box
    ELSE BoundingBox(
           BlendIeee(s.smoothing_alpha, new_box.x, s.smoothed_box.x),
           BlendIeee(s.smoothing_alpha, new_box.y, s.smoothed_box.y),
           BlendIeee(s.smoothing_alpha, new_box.width, s.smoothed_box.width),
           BlendIeee(s.smoothing_alpha, new_box.height, s.smoothed_box.height))

\* update, its blend in floating point; a miss does no arithmetic.
update_ieee(s, detection) ==
    IF detection # None
    THEN [s |-> [s EXCEPT !.frames_without_detection = 0,
                          !.last_payload = detection.payload,
                          !.smoothed_box = _smooth_box_ieee(s, detection.bounding_box)],
          ret |-> DetectedQR(detection.payload, _smooth_box_ieee(s, detection.bounding_box))]
    ELSE update(s, None)

\* ------------------------------------------------- more bounds and inputs
MaxWork == 9           \* frames read plus three times the main thread's events
MaxPending == 1        \* frame_ready events waiting in the main thread's queue

ROBOFLOW_FRAME_INTERVAL == 3
ROBOFLOW_PERSISTENCE_FRAMES == 3
InitialThreshold == 100
ScaleInv == 2                      \* 1.0 / QR_DETECTION_SCALE
max_retries == 5                   \* attempts to open the camera
ReadFailureBudget == 30            \* if frames_failed > 30

\* What pyzbar.decode may return for a frame: sequences of (data, rect).
Rect(left, top, width, height) ==
    [left |-> left, top |-> top, width |-> width, height |-> height]

Decoded(data, rect) == [data |-> data, rect |-> rect]

\* A payload whose bytes are not valid UTF-8: qr.data.decode('utf-8') raises.
Undecodable == "<not UTF-8>"

DecoderOutputs ==
    { <<>>,
      <<Decoded("OTHER", Rect(0, 0, 1, 1))>>,
      <<Decoded(Undecodable, Rect(0, 0, 1, 1))>>,
      <<Decoded(TARGET_PAYLOAD, Rect(1, 1, 2, 2))>>,
      <<Decoded("OTHER", Rect(0, 0, 1, 1)), Decoded(TARGET_PAYLOAD, Rect(1, 1, 2, 2))>> }

\* What the classifier client may answer: a RoboflowResult, or it raises.
RoboflowDetection(x, y, width, height) ==
    [x |-> x * Unit, y |-> y * Unit, width |-> width * Unit, height |-> height * Unit]

RoboflowResult(detected, detection) ==
    [detected |-> detected, detection |-> detection]

Raised == [tag |-> "raised"]

ClassifierOutcomes ==
    { RoboflowResult(TRUE, RoboflowDetection(4, 4, 4, 2)),
      RoboflowResult(FALSE, None),
      Raised }


\* ------------------------------------------------------ roboflow_client.py
\* JSON values as Python holds them after response.json(): None, numbers,
\* str, list (a sequence) and dict (a function from its keys), each tagged
\* with its type so that values of different types compare unequal.
J(t, v) == [t |-> t, v |-> v]

JNull == J("null", 0)

\* {}
EmptyDict == J("dict", [key \in {} |-> JNull])

\* A body that is not JSON (response.json() raises JSONDecodeError) is
\* J("invalid", 0); an exception travelling up is J("exc", <its class>).
IsExc(value) == "t" \in DOMAIN value /\ value.t = "exc"

ROBOFLOW_TARGET_CLASS == "laptop"

\* Python's truth value of a JSON value or of the API key (bool(v)).
Truthy(j) ==
    IF j.t = "null" THEN FALSE
    ELSE IF j.t = "num" THEN j.v # 0
    ELSE IF j.t = "str" THEN j.v # ""
    ELSE IF j.t = "list" THEN j.v # <<>>
    ELSE DOMAIN j.v # {}

\* d.get(key, default): only a dict has the method.
get(d, key, default) ==
    IF d.t # "dict" THEN J("exc", "AttributeError")
    ELSE IF key \in DOMAIN d.v THEN d.v[key]
    ELSE default

\* outputs[0] of a truthy value: the first item of a list, the first
\* character of a str (the strings tried have one character), KeyError on a
\* dict (a JSON object has no key 0), TypeError on a number.
Index0(j) ==
    IF j.t = "list" THEN j.v[1]
    ELSE IF j.t = "str" THEN j
    ELSE IF j.t = "dict" THEN J("exc", "KeyError")
    ELSE J("exc", "TypeError")

\* The keys of a dict as str values, in some order.
RECURSIVE KeysOf(_)
KeysOf(keys) ==
    IF keys = {} THEN <<>>
    ELSE LET k == CHOOSE k \in keys : TRUE IN <<J("str", k)>> \o KeysOf(keys \ {k})

\* What "for pred in predictions" iterates over: the items of a list, the
\* keys of a dict, the characters of a str; None and numbers raise TypeError.
Iterate(j) ==
    IF j.t = "list" THEN [t |-> "iter", v |-> j.v]
    ELSE IF j.t = "dict" THEN [t |-> "iter", v |-> KeysOf(DOMAIN j.v)]
    ELSE IF j.t = "str" THEN [t |-> "iter", v |-> IF j.v = "" THEN <<>> ELSE <<j>>]
    ELSE J("exc", "TypeError")

\* RoboflowDetection(class_name=pred["class"], confidence=pred.get(
\* "confidence", 0), x=..., y=..., width=..., height=...): the dataclass
\* stores whatever the body holds.
DetectionOf(pred) ==
    [class_name |-> pred.v["class"],
     confidence |-> get(pred, "confidence", J("num", 0)),
     x |-> get(pred, "x", J("num", 0)),
     y |-> get(pred, "y", J("num", 0)),
     width |-> get(pred, "width", J("num", 0)),
     height |-> get(pred, "height", J("num", 0))]

NoDetection == RoboflowResult(FALSE, None)

\* The loop of _parse_response: the first prediction of the target class.
RECURSIVE FindTarget(_)
FindTarget(predictions) ==
    IF predictions = <<>> THEN NoDetection
    ELSE LET class_name == get(Head(predictions), "class", JNull) IN
         IF IsExc(class_name) THEN class_name
         ELSE IF class_name = J("str", ROBOFLOW_TARGET_CLASS)
         THEN RoboflowResult(TRUE, DetectionOf(Head(predictions)))
         ELSE FindTarget(Tail(predictions))

\* The try block of _parse_response: a result, or the exception it raises.
ParseBody(response) ==
    LET outputs == get(response, "outputs", J("list", <<>>)) IN
    IF IsExc(outputs) THEN outputs
    ELSE IF ~Truthy(outputs) THEN NoDetection
    ELSE LET first == Index0(outputs) IN
    IF IsExc(first) THEN first
    ELSE LET predictions_data == get(first, "predictions", EmptyDict) IN
    IF IsExc(predictions_data) THEN predictions_data
    ELSE LET predictions == get(predictions_data, "predictions", J("list", <<>>)) IN
    IF IsExc(predictions) THEN predictions
    ELSE LET items == Iterate(predictions) IN
    IF IsExc(items) THEN items
    ELSE FindTarget(items.v)

\* _parse_response: except (KeyError, IndexError, TypeError) gives the
\* no-detection result; any other exception leaves the method.
_parse_response(response) ==
    LET r == ParseBody(response) IN
    IF IsExc(r) /\ r.v \in {"KeyError", "IndexError", "TypeError"}
    THEN NoDetection
    ELSE r

\* The f-string of logger.info at line 99: {det.confidence:.2f}, {det.x:.0f}
\* and {det.y:.0f} format numbers only; a str raises ValueError, None, a
\* list or a dict TypeError.  Width and height are not formatted.
FormatFloat(j) ==
    IF j.t = "num" THEN "ok"
    ELSE IF j.t = "str" THEN "ValueError"
    ELSE "TypeError"

LogDetected(det) ==
    IF FormatFloat(det.confidence) # "ok" THEN J("exc", FormatFloat(det.confidence))
    ELSE IF FormatFloat(det.x) # "ok" THEN J("exc", FormatFloat(det.x))
    ELSE IF FormatFloat(det.y) # "ok" THEN J("exc", FormatFloat(det.y))
    ELSE JNull

\* response.raise_for_status(): HTTPError for 400 <= status_code < 600.
raise_for_status(response) ==
    IF response.status_code >= 400 /\ response.status_code < 600
    THEN J("exc", "HTTPError")
    ELSE JNull

\* The try block of detect once the request is answered or has failed.
TryDetect(exchange) ==
    IF exchange.transport # "response" THEN J("exc", exchange.transport)
    ELSE IF IsExc(raise_for_status(exchange)) THEN raise_for_status(exchange)
    ELSE IF exchange.body = J("invalid", 0) THEN J("exc", "JSONDecodeError")
    ELSE LET result == _parse_response(exchange.body) IN
         IF IsExc(result) THEN result
         ELSE IF result.detected /\ IsExc(LogDetected(result.detection))
         THEN LogDetected(result.detection)
         ELSE result

\* The exception classes of the three handlers of detect: Timeout,
\* RequestException (its subclasses raised here) and Exception (the others).
HandledByDetect ==
    {"Timeout"} \cup {"ConnectionError", "HTTPError", "JSONDecodeError"}
        \cup {"KeyError", "IndexError", "TypeError", "AttributeError", "ValueError"}

\* RoboflowClient.__init__: self.api_key = api_key or ROBOFLOW_API_KEY.
\* posts counts the requests the session has sent; calls and last record the
\* calls of detect made and the last one's exchange and return value.
RoboflowClient(api_key, env_key) ==
    [api_key |-> IF Truthy(api_key) THEN api_key ELSE env_key,
     posts |-> 0, calls |-> 0, last |-> None]

\* detect: the value returned (or Raised) and the requests sent.
detect(self, exchange) ==
    IF ~Truthy(self.api_key)
    THEN [ret |-> NoDetection, posts |-> 0]
    ELSE LET r == TryDetect(exchange) IN
         [ret |-> IF ~IsExc(r) THEN r
                  ELSE IF r.v \in HandledByDetect THEN NoDetection
                  ELSE Raised,
          posts |-> 1]

\* The API keys tried (argument and configuration) and the service's bodies.
ApiKeys == {JNull, J("str", ""), J("str", "rf_key")}

Prediction(class_name, confidence, x, y, width, height) ==
    J("dict", [class |-> J("str", class_name), confidence |-> confidence,
           x |-> x, y |-> y, width |-> width, height |-> height])

Body(predictions) ==
    J("dict", [outputs |-> J("list", <<J("dict", [predictions |->
              J("dict", [predictions |-> predictions])])>>)])

Bodies ==
    { J("invalid", 0), JNull, J("list", <<J("num", 1)>>), EmptyDict,
      J("dict", [outputs |-> J("list", <<>>)]),
      J("dict", [outputs |-> J("dict", [a |-> J("num", 1)])]),
      J("dict", [outputs |-> J("num", 7)]),
      J("dict", [outputs |-> J("str", "x")]),
      J("dict", [outputs |-> J("list", <<JNull>>)]),
      J("dict", [outputs |-> J("list", <<EmptyDict>>)]),
      J("dict", [outputs |-> J("list", <<J("dict", [predictions |-> J("list", <<>>)])>>)]),
      Body(JNull), Body(J("num", 3)), Body(J("str", "x")), Body(J("dict", [class |-> J("str", "laptop")])),
      Body(J("list", <<>>)),
      Body(J("list", <<J("str", "laptop")>>)),
      Body(J("list", <<Prediction("cat", J("num", 1), J("num", 1), J("num", 1), J("num", 1), J("num", 1))>>)),
      Body(J("list", <<Prediction("laptop", J("num", 1), J("num", 4), J("num", 4), J("num", 4), J("num", 2))>>)),
      Body(J("list", <<Prediction("cat", J("num", 1), J("num", 1), J("num", 1), J("num", 1), J("num", 1)), Prediction("laptop", J("num", 1), J("num", 4), J("num", 4), J("num", 4), J("num", 2))>>)),
      Body(J("list", <<Prediction("laptop", J("num", 1), J("num", 4), J("num", 4), J("num", 4), J("num", 2)), Prediction("laptop", J("num", 2), J("num", 8), J("num", 8), J("num", 4), J("num", 2))>>)),
      Body(J("list", <<Prediction("laptop", J("num", 2), J("num", 8), J("num", 8), J("num", 4), J("num", 2)), Prediction("cat", J("num", 3), J("num", 1), J("num", 1), J("num", 1), J("num", 1)), Prediction("laptop", J("num", 1), J("num", 4), J("num", 4), J("num", 4), J("num", 2))>>)),
      Body(J("list", <<J("dict", [class |-> J("str", "laptop")])>>)),
      Body(J("list", <<Prediction("laptop", J("str", "high"), J("num", 4), J("num", 4), J("num", 4), J("num", 2))>>)),
      Body(J("list", <<Prediction("laptop", J("num", 1), JNull, J("num", 4), J("num", 4), J("num", 2))>>)),
      Body(J("list", <<Prediction("laptop", J("num", 1), J("num", 4), J("num", 4), J("str", "wide"), J("num", 2))>>)),
      Body(J("list", <<Prediction("laptop", J("num", 1), J("num", 4), J("num", 4), J("num", 4), JNull)>>)) }

\* What the service does with a request: the request times out, fails
\* otherwise, or is answered with a status and a body.
Exchanges ==
    {[transport |-> "Timeout"], [transport |-> "ConnectionError"]}
        \cup {[transport |-> "response", status_code |-> status_code, body |-> body] :
                 status_code \in {200, 304, 404, 500}, body \in Bodies}

\* ------------------------------------------------ camera_manager.py: data
\* RoboflowDetection.bbox: (x - width / 2, y - height / 2, width, height)
bbox(det) ==
    <<det.x - det.width \div 2, det.y - det.height \div 2, det.width, det.height>>

ClassificationBBox(x, y, width, height) ==
    [x |-> x, y |-> y, width |-> width, height |-> height]

FrameData(frame, detection, robot_detected, qr_enabled, classification_detected, classification_bbox, can_continue_moving, roboflow_enabled) ==
    [frame |-> frame, detection |-> detection, robot_detected |-> robot_detected,
     qr_enabled |-> qr_enabled, classification_detected |-> classification_detected,
     classification_bbox |-> classification_bbox,
     can_continue_moving |-> can_continue_moving,
     roboflow_enabled |-> roboflow_enabled]

\* queue.Queue(maxsize=1).put_nowait: the queue afterwards (Full is swallowed
\* by both callers, which leaves the queue as it was).
QueueMaxSize == 1

\* Mutant of put_nowait: a full queue's frame is replaced by the new one.
put_nowait_replace(q, item) == IF Len(q) >= QueueMaxSize THEN <<item>> ELSE Append(q, item)

put_nowait(q, item) == IF Len(q) >= QueueMaxSize THEN q ELSE Append(q, item)

\* _detect_qr on the decoder's output: the pairs are taken in order, each
\* payload is decoded (which raises on bytes that are not UTF-8; Raised
\* stands for the exception leaving _detect_qr) and the first pair with the
\* target payload is returned, its rectangle scaled back by
\* 1 / QR_DETECTION_SCALE; pairs after it are not looked at.
RECURSIVE _detect_qr(_)
_detect_qr(decoded) ==
    IF decoded = <<>>
    THEN None
    ELSE LET qr == Head(decoded) IN
         IF qr.data = Undecodable
         THEN Raised
         ELSE IF qr.data = TARGET_PAYLOAD
         THEN DetectedQR(qr.data,
                         PixelBox(qr.rect.left * ScaleInv, qr.rect.top * ScaleInv,
                                  qr.rect.width * ScaleInv, qr.rect.height * ScaleInv))
         ELSE _detect_qr(Tail(decoded))

\* Mutant of SafetyGate: either detector suffices when the classifier is on.
SafetyGate_or(roboflow_enabled, robot_detected, classification_detected) ==
    IF roboflow_enabled
    THEN robot_detected \/ classification_detected
    ELSE robot_detected

\* The capture loop's safety gate (run, "Compute safety gate").
SafetyGate(roboflow_enabled, robot_detected, classification_detected) ==
    IF roboflow_enabled
    THEN robot_detected /\ classification_detected
    ELSE robot_detected

\* Mutant of CanContinue: the distance is not looked at.
CanContinue_vision_only(current_distance, distance_threshold, frame_data) ==
    frame_data.can_continue_moving

\* Mutant of CanContinue: a distance equal to the threshold overrides too.
CanContinue_at_threshold(current_distance, distance_threshold, frame_data) ==
    IF current_distance >= distance_threshold
    THEN TRUE
    ELSE frame_data.can_continue_moving

\* MainWindow._on_frame_ready: the decision shown for a frame.
CanContinue(current_distance, distance_threshold, frame_data) ==
    IF current_distance > distance_threshold
    THEN TRUE
    ELSE frame_data.can_continue_moving

\* ---------------------------------------------------------- state groups
peripherals == <<sensor, tracking, viz>>

workerFields ==
    <<_running, _roboflow_enabled, _qr_enabled, _roboflow_frame_counter,
      _roboflow_queue, _roboflow_thread_running>>

clsState ==
    <<_classification_detected, _classification_bbox,
      _frames_without_classification, cls_stale>>

locks == <<_mutex, _roboflow_result_lock>>

windowFields ==
    <<pending, _current_distance, _distance_threshold, safety_banner,
      distance_seen, delivered>>

\* Everything of the camera pipeline: what the sensor, the tracking button
\* and the visualizer leave alone.
cameraVars ==
    <<smoother, mgr, workerFields, clsState, locks, cap, wrk, ui,
      nframes, events, sm, camera, error_occurred, client>>

vars ==
    <<smoother, mgr, workerFields, clsState, locks, cap, wrk, ui,
      windowFields, nframes, events, sm, camera, error_occurred, client,
      peripherals>>

\* The camera and what stands before it.  AnyCamera: any decoder output on
\* any frame, for as long as MaxWork allows.  A scripted camera yields
\* `frames` frames and shows the marker on frames first..last only.
AnyCamera == [kind |-> "any"]

ScriptedCamera(frames, first, last) ==
    [kind |-> "script", frames |-> frames, first |-> first, last |-> last]

\* A camera before which nothing changes: the decoder's output is `decoded`
\* on every frame.
FixedCamera(decoded) ==
    [kind |-> "fixed", decoded |-> decoded]

\* What a run has consumed of MaxWork: a frame counts one, an event of the
\* main thread (a toggle, a sensor reading, a threshold change, stop) three.
Work == nframes + 3 * events

CameraHasFrame ==
    IF camera.kind = "script"
    THEN nframes < camera.frames
    ELSE Work + 1 <= MaxWork

\* The decoder outputs possible on the n-th frame.
DecoderFor(n) ==
    IF camera.kind = "script"
    THEN IF n >= camera.first /\ n <= camera.last
         THEN {d \in DecoderOutputs : _detect_qr(d) \notin {None, Raised}}
         ELSE {d \in DecoderOutputs : _detect_qr(d) = None}
    ELSE IF camera.kind = "fixed"
    THEN {camera.decoded}
    ELSE DecoderOutputs

\* DistanceSensor.__init__.  thread: the index of the reader thread held in
\* self.thread, 0 for None.  readers: the reader threads ever created, each
\* with its position in _read_loop.  raw, emitted, skipped, taken and
\* join_timed_out are bookkeeping: the readings appended to the window and
\* the values emitted by distance_updated, in order; whether an input was
\* skipped; how many emitted values the window has handled; whether the
\* last join returned with the thread alive.  pc: the main thread inside
\* stop(); window: the MainWindow that owns the sensor.
DistanceSensor ==
    [running |-> FALSE, thread |-> 0, window_buffer |-> <<>>,
     readers |-> [t \in 1..MaxReaders |-> "unborn"],
     pc |-> "idle", window |-> "new", raw |-> <<>>, emitted |-> <<>>,
     skipped |-> FALSE,
     taken |-> 0, join_timed_out |-> FALSE]

\* TrackingButton.__init__.  saved: the row lists written by _save_data.
TrackingButton(target_frames) ==
    [_is_tracking |-> FALSE, _target_frames |-> target_frames,
     _current_frame |-> 0, _data |-> <<>>, saved |-> <<>>]

\* Mutant of start_tracking: the rows and the index of the previous session
\* are kept.
start_tracking_resume(t) ==
    [t EXCEPT !._is_tracking = TRUE]

\* TrackingButton.start_tracking
start_tracking(t) ==
    [t EXCEPT !._is_tracking = TRUE, !._current_frame = 0, !._data = <<>>]

\* TrackingButton.stop_tracking: _save_data writes the rows to a new file
\* unless there are none.
stop_tracking(t) ==
    [t EXCEPT !._is_tracking = FALSE,
              !.saved = IF t._data = <<>> THEN @ ELSE Append(@, t._data)]

\* TrackingButton.record_frame (the row's timestamp is left out).
record_frame(t, distance, robot_detected, qr_detected) ==
    IF ~t._is_tracking
    THEN t
    ELSE LET row == [frame |-> t._current_frame, distance_cm |-> distance,
                     robot_detected |-> robot_detected,
                     qr_detected |-> qr_detected]
             u == [t EXCEPT !._data = Append(@, row), !._current_frame = @ + 1]
         IN IF u._current_frame >= u._target_frames THEN stop_tracking(u) ELSE u

\* The capture thread's locals before run() is entered.  The locals of a
\* pass are dead once its frame is emitted, and are put back to these.
CapIdle ==
    [pc |-> "none", frame |-> 0, qr_enabled |-> FALSE, detection |-> None,
     smoothed |-> None, roboflow_enabled |-> FALSE,
     classification_detected |-> FALSE, classification_bbox |-> None,
     stale |-> FALSE, pre_disable |-> FALSE,
     attempt |-> 0, frames_failed |-> 0, handle |-> "none"]

\* The classifier thread's locals before it is started, and between frames.
\* before: the shared classifier state as the update section found it.
WrkIdle ==
    [pc |-> "none", frame |-> None, result |-> None, count |-> 0, before |-> None]

\* The shared classifier state, as one value.
ClassifierState ==
    [detected |-> _classification_detected, bbox |-> _classification_bbox,
     count |-> _frames_without_classification]

SmIdle == [k |-> -1, last |-> None, ret |-> None]

\* threading.Thread.is_alive() of _roboflow_thread
ThreadAlive == wrk.pc \notin {"none", "dead"}

\* CameraWorker.__init__ gives the worker's fields (they stand for the next
\* worker while none exists); MainWindow.__init__ gives the window's.
InitWorkerFields ==
    /\ _running = FALSE
    /\ _roboflow_enabled = FALSE
    /\ _qr_enabled = TRUE
    /\ _roboflow_frame_counter = 0
    /\ _classification_detected = FALSE
    /\ _classification_bbox = None
    /\ _frames_without_classification = 0
    /\ _roboflow_queue = <<>>
    /\ _roboflow_thread_running = FALSE
    /\ _mutex = "free"
    /\ _roboflow_result_lock = "free"
    /\ cap = CapIdle
    /\ wrk = WrkIdle
    /\ ui = [pc |-> "idle"]
    /\ pending = <<>>
    /\ _current_distance = 0
    /\ _distance_threshold = InitialThreshold
    /\ safety_banner = FALSE
    /\ nframes = 0
    /\ events = 0
    /\ distance_seen = FALSE
    /\ delivered = None
    /\ cls_stale = FALSE
    /\ sm = SmIdle
    /\ error_occurred = 0

\* CameraWorker.__init__ with its client: RoboflowClient(), the key taken
\* from the configuration; MainWindow.__init__ constructs the sensor and the
\* tracking button; no log has been visualized.
InitFields ==
    /\ InitWorkerFields
    /\ client = RoboflowClient(JNull, J("str", "rf_key"))
    /\ sensor = DistanceSensor
    /\ tracking = TrackingButton(TargetFrames)
    /\ viz = None

\* MainWindow.__init__: CameraManager() and self._camera.roboflow_enabled = True
Init ==
    /\ InitFields
    /\ smoother = NewSmoother(PipelinePersistence, DefaultAlpha)
    /\ mgr = [_worker |-> FALSE, _roboflow_enabled |-> TRUE, _qr_enabled |-> TRUE]
    /\ camera = AnyCamera

\* CameraManager() as constructed: the classifier is disabled.
InitCamera ==
    /\ InitFields
    /\ smoother = NewSmoother(PipelinePersistence, DefaultAlpha)
    /\ mgr = [_worker |-> FALSE, _roboflow_enabled |-> FALSE,
              _qr_enabled |-> TRUE]
    /\ camera = AnyCamera

\* Mutant of MgrStart: the worker is started with the flags its constructor
\* gave it.
MgrStart_unconfigured ==
    /\ ui.pc = "idle"
    /\ ~mgr._worker
    /\ cap.pc = "none"
    /\ mgr' = [mgr EXCEPT !._worker = TRUE]
    /\ cap' = [cap EXCEPT !.pc = "open"]
    /\ UNCHANGED <<smoother, workerFields, clsState, locks, wrk, ui,
                   windowFields, nframes, events, sm, camera, client, peripherals, error_occurred>>

\* ------------------------------------------------- CameraManager.start
\* Creates the worker, copies the manager's flags through the worker's
\* setters (a False flag runs the setter's reset on the fresh state) and
\* starts the thread.
MgrStart ==
    /\ ui.pc = "idle"
    /\ ~mgr._worker
    /\ cap.pc = "none"
    /\ mgr' = [mgr EXCEPT !._worker = TRUE]
    /\ _roboflow_enabled' = mgr._roboflow_enabled
    /\ _qr_enabled' = mgr._qr_enabled
    /\ smoother' = IF mgr._qr_enabled THEN smoother ELSE reset(smoother)
    /\ cap' = [cap EXCEPT !.pc = "open"]
    /\ UNCHANGED <<_running, _roboflow_frame_counter, _roboflow_queue,
                   _roboflow_thread_running, clsState, locks, wrk, ui,
                   windowFields, nframes, events, sm, camera, client, peripherals, error_occurred>>

\* Mutant of MgrRestart: start() runs the worker object of the previous run
\* again instead of constructing a new one.
MgrRestart_reuse ==
    /\ ui.pc = "idle"
    /\ ~mgr._worker
    /\ cap.pc = "done"
    /\ mgr' = [mgr EXCEPT !._worker = TRUE, !.base = nframes]
    /\ _roboflow_enabled' = mgr._roboflow_enabled
    /\ _qr_enabled' = mgr._qr_enabled
    /\ smoother' = IF mgr._qr_enabled THEN smoother ELSE reset(smoother)
    /\ cap' = [CapIdle EXCEPT !.pc = "open"]
    /\ error_occurred' = 0
    /\ UNCHANGED <<_running, _roboflow_frame_counter, _roboflow_queue,
                   _roboflow_thread_running, clsState, locks, wrk, ui,
                   windowFields, nframes, events, sm, camera, client, peripherals>>

\* Mutant of MgrRestart: start() does not test self._worker, and replaces a
\* worker whose run() has returned.
MgrRestart_revive ==
    /\ ui.pc = "idle"
    /\ cap.pc = "done"
    /\ mgr' = [mgr EXCEPT !._worker = TRUE, !.base = nframes]
    /\ _running' = FALSE
    /\ _roboflow_enabled' = mgr._roboflow_enabled
    /\ _qr_enabled' = mgr._qr_enabled
    /\ _roboflow_frame_counter' = 0
    /\ _roboflow_queue' = <<>>
    /\ _roboflow_thread_running' = FALSE
    /\ _classification_detected' = FALSE
    /\ _classification_bbox' = None
    /\ _frames_without_classification' = 0
    /\ cls_stale' = FALSE
    /\ _mutex' = "free"
    /\ _roboflow_result_lock' = "free"
    /\ smoother' = NewSmoother(PipelinePersistence, DefaultAlpha)
    /\ cap' = [CapIdle EXCEPT !.pc = "open"]
    /\ wrk' = WrkIdle
    /\ error_occurred' = 0
    /\ UNCHANGED <<ui, windowFields, nframes, events, sm, camera, client, peripherals>>

\* CameraManager.start after a stop(): self._worker is None again, so a new
\* CameraWorker is constructed (new smoother, classifier state, queue, locks
\* and thread handle), given the manager's flags and started.  A classifier
\* thread of the previous worker that is still running keeps working on the
\* previous object and is no part of the state any more.  mgr.base records
\* the number of frames read before this run.
MgrRestart ==
    /\ ui.pc = "idle"
    /\ ~mgr._worker
    /\ cap.pc = "done"
    /\ mgr' = [mgr EXCEPT !._worker = TRUE, !.base = nframes]
    /\ _running' = FALSE
    /\ _roboflow_enabled' = mgr._roboflow_enabled
    /\ _qr_enabled' = mgr._qr_enabled
    /\ _roboflow_frame_counter' = 0
    /\ _roboflow_queue' = <<>>
    /\ _roboflow_thread_running' = FALSE
    /\ _classification_detected' = FALSE
    /\ _classification_bbox' = None
    /\ _frames_without_classification' = 0
    /\ cls_stale' = FALSE
    /\ _mutex' = "free"
    /\ _roboflow_result_lock' = "free"
    /\ smoother' = NewSmoother(PipelinePersistence, DefaultAlpha)
    /\ cap' = [CapIdle EXCEPT !.pc = "open"]
    /\ wrk' = WrkIdle
    /\ error_occurred' = 0
    /\ UNCHANGED <<ui, windowFields, nframes, events, sm, camera, client, peripherals>>

\* --------------------------------------------------- CameraWorker.run
\* The camera opens and a test frame is read; self._running = True.
CapOpen ==
    /\ cap.pc = "open"
    /\ _running' = TRUE
    /\ cap' = [CapIdle EXCEPT !.pc = "loop", !.handle = "open"]
    /\ UNCHANGED <<smoother, mgr, _roboflow_enabled, _qr_enabled,
                   _roboflow_frame_counter, _roboflow_queue,
                   _roboflow_thread_running, clsState, locks, wrk, ui,
                   windowFields, nframes, events, sm, camera, client, peripherals, error_occurred>>

\* CapOpenFail emitting error_occurred at every failed attempt.
CapOpenFail_each ==
    /\ cap.pc = "open"
    /\ IF cap.attempt + 1 < max_retries
       THEN /\ cap' = [cap EXCEPT !.attempt = cap.attempt + 1]
            /\ error_occurred' = error_occurred + 1
       ELSE /\ cap' = [CapIdle EXCEPT !.pc = "done", !.handle = "released",
                                        !.attempt = cap.attempt + 1]
            /\ error_occurred' = error_occurred + 1
    /\ UNCHANGED <<smoother, mgr, workerFields, clsState, locks, wrk, ui,
                   windowFields, nframes, events, sm, camera, client, peripherals>>

\* An attempt to open the camera fails (not opened, or the test read fails):
\* the handle is released; after the last attempt error_occurred is emitted
\* and run() returns.
CapOpenFail ==
    /\ cap.pc = "open"
    /\ IF cap.attempt + 1 < max_retries
       THEN /\ cap' = [cap EXCEPT !.attempt = cap.attempt + 1]
            /\ UNCHANGED error_occurred
       ELSE /\ cap' = [CapIdle EXCEPT !.pc = "done", !.handle = "released",
                                        !.attempt = cap.attempt + 1]
            /\ error_occurred' = error_occurred + 1
    /\ UNCHANGED <<smoother, mgr, workerFields, clsState, locks, wrk, ui,
                   windowFields, nframes, events, sm, camera, client, peripherals>>

\* CapReadFail raising the fault one failure early (>= instead of >).
CapReadFail_early ==
    /\ cap.pc = "loop"
    /\ _running
    /\ IF cap.frames_failed + 1 >= ReadFailureBudget
       THEN /\ cap' = [cap EXCEPT !.pc = "exit", !.frames_failed = cap.frames_failed + 1]
            /\ error_occurred' = error_occurred + 1
       ELSE /\ cap' = [cap EXCEPT !.frames_failed = cap.frames_failed + 1]
            /\ UNCHANGED error_occurred
    /\ UNCHANGED <<smoother, mgr, workerFields, clsState, locks, wrk, ui,
                   windowFields, nframes, events, sm, camera, client, peripherals>>

\* while self._running: cap.read() with ret false: frames_failed += 1; over
\* the budget error_occurred is emitted and the loop is left by break.
CapReadFail ==
    /\ cap.pc = "loop"
    /\ _running
    /\ IF cap.frames_failed + 1 > ReadFailureBudget
       THEN /\ cap' = [cap EXCEPT !.pc = "exit", !.frames_failed = cap.frames_failed + 1]
            /\ error_occurred' = error_occurred + 1
       ELSE /\ cap' = [cap EXCEPT !.frames_failed = cap.frames_failed + 1]
            /\ UNCHANGED error_occurred
    /\ UNCHANGED <<smoother, mgr, workerFields, clsState, locks, wrk, ui,
                   windowFields, nframes, events, sm, camera, client, peripherals>>

\* A frame is read and, marker detection being on, _detect_qr raises
\* (pyzbar.decode, or qr.data.decode('utf-8') on a payload that is not
\* UTF-8): nothing in run() catches it, the thread ends there.
CapDecodeRaise ==
    /\ cap.pc = "loop"
    /\ _running
    /\ CameraHasFrame
    /\ _mutex = "free"
    /\ _qr_enabled
    /\ \E decoded \in DecoderFor(nframes + 1) : _detect_qr(decoded) = Raised
    /\ nframes' = nframes + 1
    /\ cap' = [cap EXCEPT !.pc = "aborted",
                          !.frames_failed = 0,
                          !.frame = nframes + 1,
                          !.qr_enabled = _qr_enabled]
    /\ UNCHANGED <<smoother, mgr, workerFields, clsState, locks, wrk, ui,
                   windowFields, events, sm, camera, client, peripherals, error_occurred>>

\* One pass of the loop up to the decoder: while self._running: cap.read()
\* with ret true; with QMutexLocker(self._mutex): qr_enabled = self._qr_enabled;
\* detection = self._detect_qr(frame) if qr_enabled else None.
\* (The read and the decoding touch only the thread's locals, so they are
\* taken in the same step as the locked read between them.)
CapRead ==
    /\ cap.pc = "loop"
    /\ _running
    /\ CameraHasFrame
    /\ _mutex = "free"
    /\ nframes' = nframes + 1
    /\ \E decoded \in {d \in DecoderFor(nframes + 1) :
                             _qr_enabled => _detect_qr(d) # Raised} :
         cap' = [cap EXCEPT !.pc = "smooth",
                            !.frames_failed = 0,
                            !.frame = nframes + 1,
                            !.qr_enabled = _qr_enabled,
                            !.detection = IF _qr_enabled
                                          THEN _detect_qr(decoded)
                                          ELSE None]
    /\ UNCHANGED <<smoother, mgr, workerFields, clsState, locks, wrk, ui,
                   windowFields, events, sm, camera, client, peripherals, error_occurred>>

\* with QMutexLocker(self._mutex): smoothed = self._smoother.update(detection);
\* roboflow_enabled = self._roboflow_enabled.  Then the two locals are cleared.
CapSmooth ==
    /\ cap.pc = "smooth"
    /\ _mutex = "free"
    /\ IF cap.detection = None THEN TRUE ELSE Exact(smoother, cap.detection.bounding_box)
    /\ smoother' = update(smoother, cap.detection).s
    /\ cap' = [cap EXCEPT !.pc = IF _roboflow_enabled THEN "offer" ELSE "emit",
                          !.smoothed = update(smoother, cap.detection).ret,
                          !.roboflow_enabled = _roboflow_enabled,
                          !.classification_detected = FALSE,
                          !.classification_bbox = None,
                          !.stale = FALSE]
    /\ UNCHANGED <<mgr, workerFields, clsState, locks, wrk, ui,
                   windowFields, nframes, events, sm, camera, client, peripherals, error_occurred>>

\* Mutant of CapOffer: the stride counter is reset only when the frame was
\* accepted.
CapOffer_keep_on_drop ==
    /\ cap.pc = "offer"
    /\ wrk' = IF ThreadAlive THEN wrk ELSE [WrkIdle EXCEPT !.pc = "top"]
    /\ _roboflow_thread_running' = IF ThreadAlive THEN _roboflow_thread_running ELSE TRUE
    /\ IF _roboflow_frame_counter + 1 >= ROBOFLOW_FRAME_INTERVAL
       THEN /\ _roboflow_frame_counter' = IF Len(_roboflow_queue) >= QueueMaxSize
                                          THEN _roboflow_frame_counter
                                          ELSE 0
            /\ _roboflow_queue' = put_nowait(_roboflow_queue,
                                             [id |-> cap.frame, stale |-> FALSE])
       ELSE /\ _roboflow_frame_counter' = _roboflow_frame_counter + 1
            /\ UNCHANGED _roboflow_queue
    /\ cap' = [cap EXCEPT !.pc = "read_detected"]
    /\ UNCHANGED <<smoother, mgr, _running, _roboflow_enabled, _qr_enabled,
                   clsState, locks, ui, windowFields, nframes, events, sm, camera, client, peripherals, error_occurred>>

\* Mutant of CapOffer: a worker thread is started on every pass, alive or not.
CapOffer_always_start ==
    /\ cap.pc = "offer"
    /\ wrk' = [WrkIdle EXCEPT !.pc = "top"]
    /\ _roboflow_thread_running' = TRUE
    /\ IF _roboflow_frame_counter + 1 >= ROBOFLOW_FRAME_INTERVAL
       THEN /\ _roboflow_frame_counter' = 0
            /\ _roboflow_queue' = put_nowait(_roboflow_queue,
                                             [id |-> cap.frame, stale |-> FALSE])
       ELSE /\ _roboflow_frame_counter' = _roboflow_frame_counter + 1
            /\ UNCHANGED _roboflow_queue
    /\ cap' = [cap EXCEPT !.pc = "read_detected"]
    /\ UNCHANGED <<smoother, mgr, _running, _roboflow_enabled, _qr_enabled,
                   clsState, locks, ui, windowFields, nframes, events, sm, camera, client, peripherals, error_occurred>>

\* if roboflow_enabled: start the thread if it is not alive, count the frame,
\* and every ROBOFLOW_FRAME_INTERVAL-th frame put_nowait(frame.copy()).
CapOffer ==
    /\ cap.pc = "offer"
    /\ wrk' = IF ThreadAlive THEN wrk ELSE [WrkIdle EXCEPT !.pc = "top"]
    /\ _roboflow_thread_running' = IF ThreadAlive THEN _roboflow_thread_running ELSE TRUE
    /\ IF _roboflow_frame_counter + 1 >= ROBOFLOW_FRAME_INTERVAL
       THEN /\ _roboflow_frame_counter' = 0
            /\ _roboflow_queue' = put_nowait(_roboflow_queue,
                                             [id |-> cap.frame, stale |-> FALSE])
       ELSE /\ _roboflow_frame_counter' = _roboflow_frame_counter + 1
            /\ UNCHANGED _roboflow_queue
    /\ cap' = [cap EXCEPT !.pc = "read_detected"]
    /\ UNCHANGED <<smoother, mgr, _running, _roboflow_enabled, _qr_enabled,
                   clsState, locks, ui, windowFields, nframes, events, sm, camera, client, peripherals, error_occurred>>

\* with self._roboflow_result_lock: classification_detected = ...
CapReadDetected ==
    /\ cap.pc = "read_detected"
    /\ _roboflow_result_lock = "free"
    /\ _roboflow_result_lock' = "cap"
    /\ cap' = [cap EXCEPT !.pc = "read_bbox",
                          !.classification_detected = _classification_detected,
                          !.stale = _classification_detected /\ cls_stale]
    /\ UNCHANGED <<smoother, mgr, workerFields, clsState, _mutex, wrk, ui,
                   windowFields, nframes, events, sm, camera, client, peripherals, error_occurred>>

\* The frame's record as run() builds it from its locals.
BuildFrameData(c, classification_bbox) ==
    FrameData(c.frame, c.smoothed, c.smoothed # None, c.qr_enabled,
              c.classification_detected, classification_bbox,
              SafetyGate(c.roboflow_enabled, c.smoothed # None, c.classification_detected),
              c.roboflow_enabled)

\* ... classification_bbox = self._classification_bbox; the lock is released.
\* Then the safety gate, FrameData(...) and self.frame_ready.emit(frame_data):
\* the event is queued for the main thread.
CapReadBbox ==
    /\ cap.pc = "read_bbox"
    /\ Len(pending) < MaxPending
    /\ _roboflow_result_lock' = "free"
    /\ pending' = Append(pending, BuildFrameData(cap, _classification_bbox))
    /\ cap' = [CapIdle EXCEPT !.pc = "loop", !.handle = cap.handle]
    /\ UNCHANGED <<smoother, mgr, workerFields, clsState, _mutex, wrk, ui,
                   _current_distance, _distance_threshold, safety_banner,
                   distance_seen, delivered, nframes, events, sm, camera, client, peripherals, error_occurred>>

\* With the classifier seen disabled the two locals keep False and None:
\* the safety gate, FrameData(...) and self.frame_ready.emit(frame_data).
CapEmit ==
    /\ cap.pc = "emit"
    /\ Len(pending) < MaxPending
    /\ pending' = Append(pending, BuildFrameData(cap, cap.classification_bbox))
    /\ cap' = [CapIdle EXCEPT !.pc = "loop", !.handle = cap.handle]
    /\ UNCHANGED <<smoother, mgr, workerFields, clsState, locks, wrk, ui,
                   _current_distance, _distance_threshold, safety_banner,
                   distance_seen, delivered, nframes, events, sm, camera, client, peripherals, error_occurred>>

\* The loop sees self._running false, or was left by break: cap.release(),
\* the thread flag is cleared and, if the thread is alive, put_nowait(None).
CapRelease ==
    /\ cap.pc \in {"loop", "exit"}
    /\ cap.pc = "loop" => ~_running
    /\ _roboflow_thread_running' = FALSE
    /\ _roboflow_queue' = IF ThreadAlive
                          THEN put_nowait(_roboflow_queue, None)
                          ELSE _roboflow_queue
    /\ cap' = [CapIdle EXCEPT !.pc = "done", !.handle = "released"]
    /\ UNCHANGED <<smoother, mgr, _running, _roboflow_enabled, _qr_enabled,
                   _roboflow_frame_counter, clsState, locks, wrk, ui,
                   windowFields, nframes, events, sm, camera, client, peripherals, error_occurred>>

\* Mutant of WTop: the loop does not test the thread flag.
WTop_deaf ==
    /\ wrk.pc = "top"
    /\ wrk' = [WrkIdle EXCEPT !.pc = "get"]
    /\ UNCHANGED <<smoother, mgr, workerFields, clsState, locks, cap, ui,
                   windowFields, nframes, events, sm, camera, client, peripherals, error_occurred>>

\* ------------------------------------------- CameraWorker._roboflow_worker
\* while self._roboflow_thread_running:
WTop ==
    /\ wrk.pc = "top"
    /\ wrk' = [WrkIdle EXCEPT !.pc = IF _roboflow_thread_running THEN "get" ELSE "dead"]
    /\ UNCHANGED <<smoother, mgr, workerFields, clsState, locks, cap, ui,
                   windowFields, nframes, events, sm, camera, client, peripherals, error_occurred>>

\* Mutant of WGet: the result lock is taken with the frame, before the call.
WGet_locking ==
    /\ wrk.pc = "get"
    /\ _roboflow_queue # <<>>
    /\ _roboflow_result_lock = "free"
    /\ _roboflow_queue' = Tail(_roboflow_queue)
    /\ _roboflow_result_lock' = IF Head(_roboflow_queue) = None THEN "free" ELSE "wrk"
    /\ wrk' = IF Head(_roboflow_queue) = None
              THEN [WrkIdle EXCEPT !.pc = "dead"]
              ELSE [wrk EXCEPT !.pc = "call", !.frame = Head(_roboflow_queue)]
    /\ UNCHANGED <<smoother, mgr, _running, _roboflow_enabled, _qr_enabled,
                   _roboflow_frame_counter, _roboflow_thread_running, clsState,
                   _mutex, cap, ui, windowFields, nframes, events, sm, camera, client, peripherals, error_occurred>>

\* frame = self._roboflow_queue.get(timeout=0.5); None is the exit signal.
WGet ==
    /\ wrk.pc = "get"
    /\ _roboflow_queue # <<>>
    /\ _roboflow_queue' = Tail(_roboflow_queue)
    /\ wrk' = IF Head(_roboflow_queue) = None
              THEN [WrkIdle EXCEPT !.pc = "dead"]
              ELSE [wrk EXCEPT !.pc = "call", !.frame = Head(_roboflow_queue)]
    /\ UNCHANGED <<smoother, mgr, _running, _roboflow_enabled, _qr_enabled,
                   _roboflow_frame_counter, _roboflow_thread_running, clsState,
                   locks, cap, ui, windowFields, nframes, events, sm, camera, client, peripherals, error_occurred>>

\* The get times out: except queue.Empty: continue
WTimeout ==
    /\ wrk.pc = "get"
    /\ _roboflow_queue = <<>>
    /\ wrk' = [WrkIdle EXCEPT !.pc = "top"]
    /\ UNCHANGED <<smoother, mgr, workerFields, clsState, locks, cap, ui,
                   windowFields, nframes, events, sm, camera, client, peripherals, error_occurred>>

\* result = self._roboflow_client.detect(frame); an exception is logged by
\* the handler at the end of the loop body and the loop goes on.
WCall ==
    /\ wrk.pc = "call"
    /\ \E outcome \in ClassifierOutcomes :
         wrk' = IF outcome = Raised
                THEN [WrkIdle EXCEPT !.pc = "top"]
                ELSE [wrk EXCEPT !.pc = "update", !.result = outcome]
    /\ UNCHANGED <<smoother, mgr, workerFields, clsState, locks, cap, ui,
                   windowFields, nframes, events, sm, camera, client, peripherals, error_occurred>>

\* The test of the update section.
Detected(result) == result.detected /\ result.detection # None

\* with self._roboflow_result_lock: ... self._classification_detected = True
WSetDetected ==
    /\ wrk.pc = "update"
    /\ Detected(wrk.result)
    /\ _roboflow_result_lock = "free"
    /\ _roboflow_result_lock' = "wrk"
    /\ _classification_detected' = TRUE
    /\ cls_stale' = wrk.frame.stale
    /\ wrk' = [wrk EXCEPT !.pc = "set_count", !.before = ClassifierState]
    /\ UNCHANGED <<smoother, mgr, workerFields, _classification_bbox,
                   _frames_without_classification, _mutex, cap, ui,
                   windowFields, nframes, events, sm, camera, client, peripherals, error_occurred>>

\* self._frames_without_classification = 0
WSetCount ==
    /\ wrk.pc = "set_count"
    /\ _frames_without_classification' = 0
    /\ wrk' = [wrk EXCEPT !.pc = "set_bbox"]
    /\ UNCHANGED <<smoother, mgr, workerFields, _classification_detected,
                   _classification_bbox, cls_stale, locks, cap, ui,
                   windowFields, nframes, events, sm, camera, client, peripherals, error_occurred>>

\* self._classification_bbox = ClassificationBBox(...); the lock is released.
WSetBbox ==
    /\ wrk.pc = "set_bbox"
    /\ _classification_bbox' =
          ClassificationBBox(bbox(wrk.result.detection)[1], bbox(wrk.result.detection)[2],
                             bbox(wrk.result.detection)[3], bbox(wrk.result.detection)[4])
    /\ _roboflow_result_lock' = "free"
    /\ wrk' = [WrkIdle EXCEPT !.pc = "top"]
    /\ UNCHANGED <<smoother, mgr, workerFields, _classification_detected,
                   _frames_without_classification, cls_stale, _mutex, cap, ui,
                   windowFields, nframes, events, sm, camera, client, peripherals, error_occurred>>

\* else: self._frames_without_classification += 1, the load ...
WCountRead ==
    /\ wrk.pc = "update"
    /\ ~Detected(wrk.result)
    /\ _roboflow_result_lock = "free"
    /\ _roboflow_result_lock' = "wrk"
    /\ wrk' = [wrk EXCEPT !.pc = "count_write",
                          !.count = _frames_without_classification,
                          !.before = ClassifierState]
    /\ UNCHANGED <<smoother, mgr, workerFields, clsState, _mutex, cap, ui,
                   windowFields, nframes, events, sm, camera, client, peripherals, error_occurred>>

\* ... and the store.
WCountWrite ==
    /\ wrk.pc = "count_write"
    /\ _frames_without_classification' = wrk.count + 1
    /\ wrk' = [wrk EXCEPT !.pc = "compare", !.count = 0]
    /\ UNCHANGED <<smoother, mgr, workerFields, _classification_detected,
                   _classification_bbox, cls_stale, locks, cap, ui,
                   windowFields, nframes, events, sm, camera, client, peripherals, error_occurred>>

\* Mutant of WCompare: the threshold test written > instead of >=.
WCompare_late ==
    /\ wrk.pc = "compare"
    /\ IF _frames_without_classification > ROBOFLOW_PERSISTENCE_FRAMES
       THEN /\ wrk' = [wrk EXCEPT !.pc = "clear_detected"]
            /\ UNCHANGED _roboflow_result_lock
       ELSE /\ wrk' = [WrkIdle EXCEPT !.pc = "top"]
            /\ _roboflow_result_lock' = "free"
    /\ UNCHANGED <<smoother, mgr, workerFields, clsState, _mutex, cap, ui,
                   windowFields, nframes, events, sm, camera, client, peripherals, error_occurred>>

\* if self._frames_without_classification >= ROBOFLOW_PERSISTENCE_FRAMES:
WCompare ==
    /\ wrk.pc = "compare"
    /\ IF _frames_without_classification >= ROBOFLOW_PERSISTENCE_FRAMES
       THEN /\ wrk' = [wrk EXCEPT !.pc = "clear_detected"]
            /\ UNCHANGED _roboflow_result_lock
       ELSE /\ wrk' = [WrkIdle EXCEPT !.pc = "top"]
            /\ _roboflow_result_lock' = "free"
    /\ UNCHANGED <<smoother, mgr, workerFields, clsState, _mutex, cap, ui,
                   windowFields, nframes, events, sm, camera, client, peripherals, error_occurred>>

\* self._classification_detected = False
WClearDetected ==
    /\ wrk.pc = "clear_detected"
    /\ _classification_detected' = FALSE
    /\ wrk' = [wrk EXCEPT !.pc = "clear_bbox"]
    /\ UNCHANGED <<smoother, mgr, workerFields, _classification_bbox,
                   _frames_without_classification, cls_stale, locks, cap, ui,
                   windowFields, nframes, events, sm, camera, client, peripherals, error_occurred>>

\* self._classification_bbox = None; the lock is released.
WClearBbox ==
    /\ wrk.pc = "clear_bbox"
    /\ _classification_bbox' = None
    /\ _roboflow_result_lock' = "free"
    /\ wrk' = [WrkIdle EXCEPT !.pc = "top"]
    /\ UNCHANGED <<smoother, mgr, workerFields, _classification_detected,
                   _frames_without_classification, cls_stale, _mutex, cap, ui,
                   windowFields, nframes, events, sm, camera, client, peripherals, error_occurred>>

\* -------------------------------------------------- main thread: toggles
\* Bookkeeping: a frame handed over before a disable is marked, and so is
\* the capture pass that saw the classifier enabled before it.
MarkStale(item) == IF item = None THEN None ELSE [item EXCEPT !.stale = TRUE]

MarkPass(c) ==
    IF c.pc \in {"offer", "read_detected", "read_bbox"}
    THEN [c EXCEPT !.pre_disable = TRUE]
    ELSE c

\* CameraManager.roboflow_enabled = value (MainWindow._on_roboflow_toggled),
\* down to CameraWorker's setter: the mutex is taken and the flag written.
\* With value False the three resets follow, one store each, mutex held.
SetRoboflowEnabled(value) ==
    /\ ui.pc = "idle"
    /\ Work + 3 <= MaxWork
    /\ events' = events + 1
    /\ mgr' = [mgr EXCEPT !._roboflow_enabled = value]
    /\ IF mgr._worker
       THEN /\ _mutex = "free"
            /\ _roboflow_enabled' = value
            /\ IF value
               THEN UNCHANGED <<_mutex, ui, _roboflow_queue, wrk, cap>>
               ELSE /\ _mutex' = "ui"
                    /\ ui' = [ui EXCEPT !.pc = "clear_detected"]
                    /\ _roboflow_queue' =
                          [i \in DOMAIN _roboflow_queue |-> MarkStale(_roboflow_queue[i])]
                    /\ wrk' = [wrk EXCEPT !.frame = MarkStale(wrk.frame)]
                    /\ cap' = MarkPass(cap)
       ELSE UNCHANGED <<_roboflow_enabled, _mutex, ui, _roboflow_queue, wrk, cap>>
    /\ UNCHANGED <<smoother, _running, _qr_enabled, _roboflow_frame_counter,
                   _roboflow_thread_running, clsState, _roboflow_result_lock,
                   windowFields, nframes, sm, camera, client, peripherals, error_occurred>>

\* self._classification_detected = False
UiClearDetected ==
    /\ ui.pc = "clear_detected"
    /\ _classification_detected' = FALSE
    /\ ui' = [ui EXCEPT !.pc = "clear_bbox"]
    /\ UNCHANGED <<smoother, mgr, workerFields, _classification_bbox,
                   _frames_without_classification, cls_stale, locks, cap, wrk,
                   windowFields, nframes, events, sm, camera, client, peripherals, error_occurred>>

\* self._classification_bbox = None
UiClearBbox ==
    /\ ui.pc = "clear_bbox"
    /\ _classification_bbox' = None
    /\ ui' = [ui EXCEPT !.pc = "clear_count"]
    /\ UNCHANGED <<smoother, mgr, workerFields, _classification_detected,
                   _frames_without_classification, cls_stale, locks, cap, wrk,
                   windowFields, nframes, events, sm, camera, client, peripherals, error_occurred>>

\* self._frames_without_classification = 0; the mutex is released.
UiClearCount ==
    /\ ui.pc = "clear_count"
    /\ _frames_without_classification' = 0
    /\ _mutex' = "free"
    /\ ui' = [ui EXCEPT !.pc = "idle"]
    /\ UNCHANGED <<smoother, mgr, workerFields, _classification_detected,
                   _classification_bbox, cls_stale, _roboflow_result_lock, cap,
                   wrk, windowFields, nframes, events, sm, camera, client, peripherals, error_occurred>>

\* CameraManager.qr_enabled = value (MainWindow._on_qr_toggled), down to
\* CameraWorker's setter: under the mutex, the flag and, with value False,
\* self._smoother.reset().
SetQrEnabled(value) ==
    /\ ui.pc = "idle"
    /\ Work + 3 <= MaxWork
    /\ events' = events + 1
    /\ mgr' = [mgr EXCEPT !._qr_enabled = value]
    /\ IF mgr._worker
       THEN /\ _mutex = "free"
            /\ _qr_enabled' = value
            /\ smoother' = IF value THEN smoother ELSE reset(smoother)
       ELSE UNCHANGED <<_qr_enabled, smoother>>
    /\ UNCHANGED <<_running, _roboflow_enabled, _roboflow_frame_counter,
                   _roboflow_queue, _roboflow_thread_running, clsState, locks,
                   cap, wrk, ui, windowFields, nframes, sm, camera, client, peripherals, error_occurred>>

\* ------------------------------------------------ main thread: MainWindow
\* _on_distance_updated
OnDistanceUpdated(distance) ==
    /\ ui.pc = "idle"
    /\ Work + 3 <= MaxWork
    /\ events' = events + 1
    /\ _current_distance' = distance
    /\ distance_seen' = TRUE
    /\ UNCHANGED <<smoother, mgr, workerFields, clsState, locks, cap, wrk, ui,
                   pending, _distance_threshold, safety_banner, delivered,
                   nframes, sm, camera, client, peripherals, error_occurred>>

\* _on_threshold_changed: the spin box reports a changed value.
OnThresholdChanged(value) ==
    /\ ui.pc = "idle"
    /\ Work + 3 <= MaxWork
    /\ value # _distance_threshold
    /\ events' = events + 1
    /\ _distance_threshold' = value
    /\ UNCHANGED <<smoother, mgr, workerFields, clsState, locks, cap, wrk, ui,
                   pending, _current_distance, safety_banner, distance_seen,
                   delivered, nframes, sm, camera, client, peripherals, error_occurred>>

\* _on_frame_ready for the oldest queued event: the banner is set from the
\* distance override or else from the frame's own decision, and a tracking
\* session records the frame.
OnFrameReady ==
    /\ ui.pc = "idle"
    /\ pending # <<>>
    /\ safety_banner' = CanContinue(_current_distance, _distance_threshold, Head(pending))
    /\ delivered' = [frame_data |-> Head(pending), distance |-> _current_distance,
                     threshold |-> _distance_threshold]
    /\ pending' = Tail(pending)
    /\ tracking' =
          IF tracking._is_tracking
          THEN record_frame(tracking, _current_distance,
                            IF Head(pending).roboflow_enabled
                            THEN Head(pending).classification_detected ELSE FALSE,
                            IF Head(pending).qr_enabled
                            THEN Head(pending).robot_detected ELSE FALSE)
          ELSE tracking
    /\ UNCHANGED <<smoother, mgr, workerFields, clsState, locks, cap, wrk, ui,
                   _current_distance, _distance_threshold, distance_seen,
                   nframes, events, sm, camera, client, sensor, viz, error_occurred>>

\* CameraManager.stop: CameraWorker.stop clears _running and waits for run().
MgrStop ==
    /\ ui.pc = "idle"
    /\ Work + 3 <= MaxWork
    /\ mgr._worker
    /\ events' = events + 1
    /\ _running' = FALSE
    /\ ui' = [ui EXCEPT !.pc = "wait"]
    /\ UNCHANGED <<smoother, mgr, _roboflow_enabled, _qr_enabled,
                   _roboflow_frame_counter, _roboflow_queue,
                   _roboflow_thread_running, clsState, locks, cap, wrk,
                   windowFields, nframes, sm, camera, client, peripherals, error_occurred>>

\* self.wait() returns when run() has returned; self._worker = None
MgrStopped ==
    /\ ui.pc = "wait"
    /\ cap.pc = "done"
    /\ mgr' = [mgr EXCEPT !._worker = FALSE]
    /\ ui' = [ui EXCEPT !.pc = "idle"]
    /\ UNCHANGED <<smoother, workerFields, clsState, locks, cap, wrk,
                   windowFields, nframes, events, sm, camera, client, peripherals, error_occurred>>

\* ------------------------------------------------------------ the pipeline
Capture ==
    \/ CapOpen \/ CapRead \/ CapSmooth
    \/ CapOffer \/ CapReadDetected \/ CapReadBbox \/ CapEmit \/ CapRelease

Classifier ==
    \/ WTop \/ WGet \/ WTimeout \/ WCall
    \/ WSetDetected \/ WSetCount \/ WSetBbox
    \/ WCountRead \/ WCountWrite \/ WCompare \/ WClearDetected \/ WClearBbox

Next ==
    \/ Capture
    \/ Classifier
    \/ MgrStart \/ MgrStop \/ MgrStopped
    \/ \E value \in BOOLEAN : SetRoboflowEnabled(value)
    \/ UiClearDetected \/ UiClearBbox \/ UiClearCount
    \/ \E value \in BOOLEAN : SetQrEnabled(value)
    \/ \E distance \in {100, 200} : OnDistanceUpdated(distance)
    \/ \E value \in {100, 200} : OnThresholdChanged(value)
    \/ OnFrameReady

Spec == Init /\ [][Next]_vars

\* ------------------------------------------------ the smoother on its own
\* Any sequence of update(), reset() and alpha writes on one smoother.
SmootherBoxes == {PixelBox(2, 2, 4, 4), PixelBox(4, 2, 4, 4)}

SmootherPayloads == {TARGET_PAYLOAD, "OTHER"}

AlphaInputs == {-50, 50, 150}

pipelineVars ==
    <<mgr, workerFields, clsState, locks, cap, wrk, ui, windowFields,
      events, camera, error_occurred, client, peripherals>>

InitSmoother ==
    /\ InitFields
    /\ \E persistence_frames \in 0..MaxPersistence :
         smoother = NewSmoother(persistence_frames, DefaultAlpha)
    /\ mgr = [_worker |-> FALSE, _roboflow_enabled |-> TRUE, _qr_enabled |-> TRUE]
    /\ camera = AnyCamera

\* update(DetectedQR(...)); sm records the call: k misses since the last
\* detection (-1: none yet), the value that detection returned, and the
\* value this call returned. nframes counts these calls.
SmDetect(payload, bounding_box) ==
    /\ nframes < MaxDetections
    /\ Exact(smoother, bounding_box)
    /\ nframes' = nframes + 1
    /\ smoother' = update(smoother, DetectedQR(payload, bounding_box)).s
    /\ sm' = [k |-> 0,
              last |-> update(smoother, DetectedQR(payload, bounding_box)).ret,
              ret |-> update(smoother, DetectedQR(payload, bounding_box)).ret]
    /\ UNCHANGED pipelineVars

\* update(None)
SmMiss ==
    /\ smoother.frames_without_detection < MaxMisses
    /\ smoother' = update(smoother, None).s
    /\ sm' = [sm EXCEPT !.k = IF sm.k < 0 THEN sm.k ELSE sm.k + 1,
                        !.ret = update(smoother, None).ret]
    /\ UNCHANGED <<nframes, pipelineVars>>

\* reset()
SmReset ==
    /\ smoother' = reset(smoother)
    /\ sm' = SmIdle
    /\ UNCHANGED <<nframes, pipelineVars>>

\* smoother.alpha = value
SmSetAlpha(value) ==
    /\ smoother' = set_alpha(smoother, value)
    /\ UNCHANGED <<sm, nframes, pipelineVars>>

SpecSmoother ==
    /\ InitSmoother
    /\ [][\/ \E payload \in SmootherPayloads, bounding_box \in SmootherBoxes :
               SmDetect(payload, bounding_box)
          \/ SmMiss
          \/ SmReset
          \/ \E value \in AlphaInputs : SmSetAlpha(value)]_vars

\* ------------------------------------------------------- setting alpha
\* CameraWorker.smoothing_alpha = value: self._smoother.alpha = value, on the
\* caller's thread and without the mutex.
WorkerSetAlpha(value) ==
    /\ ui.pc = "idle"
    /\ mgr._worker
    /\ Work + 3 <= MaxWork
    /\ events' = events + 1
    /\ smoother' = set_alpha(smoother, value)
    /\ UNCHANGED <<mgr, workerFields, clsState, locks, cap, wrk, ui,
                   windowFields, nframes, sm, camera, client, peripherals, error_occurred>>

\* Mutant of MgrSetAlpha: the value is kept for the next worker.
MgrSetAlpha_kept(value) ==
    /\ ui.pc = "idle"
    /\ Work + 3 <= MaxWork
    /\ events' = events + 1
    /\ smoother' = set_alpha(smoother, value)
    /\ UNCHANGED <<mgr, workerFields, clsState, locks, cap, wrk, ui,
                   windowFields, nframes, sm, camera, client, peripherals, error_occurred>>

\* CameraManager.smoothing_alpha = value (MainWindow._on_smoothing_changed):
\* passed on to the worker if there is one, dropped otherwise.
MgrSetAlpha(value) ==
    /\ ui.pc = "idle"
    /\ Work + 3 <= MaxWork
    /\ events' = events + 1
    /\ smoother' = IF mgr._worker THEN set_alpha(smoother, value) ELSE smoother
    /\ UNCHANGED <<mgr, workerFields, clsState, locks, cap, wrk, ui,
                   windowFields, nframes, sm, camera, client, peripherals, error_occurred>>

\* The pipeline, classifier disabled, with alpha written at any moment
\* through the smoother, the worker or the manager.
SpecAlpha ==
    /\ InitCamera
    /\ [][\/ MgrStart \/ MgrStop \/ MgrStopped
          \/ CapOpen \/ CapRead \/ CapSmooth \/ CapEmit \/ CapRelease
          \/ OnFrameReady
          \/ \E value \in AlphaInputs : SmSetAlpha(value)
          \/ \E value \in AlphaInputs : WorkerSetAlpha(value)
          \/ \E value \in AlphaInputs : MgrSetAlpha(value)]_vars

\* ------------------------------------------------- the marker detector
\* The pipeline, classifier disabled, before a camera for which the decoder
\* returns one and the same sequence of up to MaxDecoded pairs on every frame.
DetectorPairs ==
    { Decoded(data, rect) : data \in {TARGET_PAYLOAD, "robot_r1", Undecodable},
                            rect \in {Rect(1, 1, 2, 2), Rect(3, 0, 1, 2)} }

DetectorInputs == UNION {[1..k -> DetectorPairs] : k \in 0..MaxDecoded}

InitDetector ==
    /\ InitFields
    /\ smoother = NewSmoother(PipelinePersistence, DefaultAlpha)
    /\ mgr = [_worker |-> FALSE, _roboflow_enabled |-> FALSE, _qr_enabled |-> TRUE]
    /\ \E decoded \in DetectorInputs : camera = FixedCamera(decoded)

SpecDetector ==
    /\ InitDetector
    /\ [][\/ MgrStart
          \/ CapOpen \/ CapRead \/ CapDecodeRaise \/ CapSmooth \/ CapEmit
          \/ OnFrameReady]_vars

\* ----------------------------------------- the smoother in floating point
\* A smoother with alpha set from the slider (value / 100.0), fed boxes and
\* reset.  sm records the last update: the box fed, the smoothed box before
\* it, the number of updates since the box was last empty, and, per
\* coordinate, the least and the greatest raw value fed and the greatest
\* value fed or held since then.
SliderValues == {0, 1, 10, 30, 50, 60, 99, 100}

\* Boxes of whole pixels, as floats.
FloatBoxes ==
    { BoundingBox(b[1] * FlOne, b[2] * FlOne, b[3] * FlOne, b[4] * FlOne) :
        b \in {<<3, 15, 6, 12>>, <<15, 3, 12, 6>>, <<6, 12, 3, 15>>} }

FlDetect(bounding_box) ==
    /\ nframes < MaxFloatUpdates
    /\ InRange(smoother, bounding_box)
    /\ nframes' = nframes + 1
    /\ smoother' = update_ieee(smoother, DetectedQR(TARGET_PAYLOAD, bounding_box)).s
    /\ sm' = IF smoother.smoothed_box = None
             THEN [fed |-> bounding_box, prev |-> None, n |-> 1,
                   lo |-> bounding_box, hi |-> bounding_box, mag |-> bounding_box]
             ELSE [fed |-> bounding_box, prev |-> smoother.smoothed_box, n |-> sm.n + 1,
                   lo |-> [c \in Coordinates |-> Min(sm.lo[c], bounding_box[c])],
                   hi |-> [c \in Coordinates |-> Max(sm.hi[c], bounding_box[c])],
                   mag |-> [c \in Coordinates |->
                              Max(sm.mag[c],
                                  Max(bounding_box[c], smoother.smoothed_box[c]))]]
    /\ UNCHANGED pipelineVars

\* reset()
FlReset ==
    /\ smoother.smoothed_box # None
    /\ smoother' = reset(smoother)
    /\ sm' = SmIdle
    /\ UNCHANGED <<nframes, pipelineVars>>

InitFloat ==
    /\ InitFields
    /\ \E value \in SliderValues :
         smoother = NewSmoother(PipelinePersistence, FlPercent(value))
    /\ mgr = [_worker |-> FALSE, _roboflow_enabled |-> TRUE, _qr_enabled |-> TRUE]
    /\ camera = AnyCamera

SpecFloat ==
    /\ InitFloat
    /\ [][\/ \E bounding_box \in FloatBoxes : FlDetect(bounding_box)
          \/ FlReset]_vars

\* ------------------------------------------------- the classifier client
\* A client constructed with any key, before a service that answers each
\* request in any way; detect is called on captured frames.
ClientDetect ==
    /\ client.calls < MaxCalls
    /\ \E exchange \in Exchanges :
         LET r == detect(client, exchange) IN
         client' = [client EXCEPT !.calls = @ + 1,
                                  !.posts = @ + r.posts,
                                  !.last = [exchange |-> exchange, ret |-> r.ret]]
    /\ UNCHANGED <<smoother, mgr, workerFields, clsState, locks, cap, wrk, ui,
                   windowFields, nframes, events, sm, camera, error_occurred,
                   peripherals>>

InitClient ==
    /\ InitWorkerFields
    /\ sensor = DistanceSensor
    /\ tracking = TrackingButton(TargetFrames)
    /\ viz = None
    /\ smoother = NewSmoother(PipelinePersistence, DefaultAlpha)
    /\ mgr = [_worker |-> FALSE, _roboflow_enabled |-> TRUE, _qr_enabled |-> TRUE]
    /\ camera = AnyCamera
    /\ \E api_key \in ApiKeys, env_key \in ApiKeys :
         client = RoboflowClient(api_key, env_key)

SpecClient == InitClient /\ [][ClientDetect]_vars

\* ------------------------------------------------- an end-to-end scenario
\* The camera yields frames 1..50 with the marker decoded on 5..40 only; the
\* classifier was switched off before the start and no distance reading
\* arrives; nothing is toggled during the run.
InitE2E ==
    /\ InitFields
    /\ smoother = NewSmoother(PipelinePersistence, DefaultAlpha)
    /\ mgr = [_worker |-> FALSE, _roboflow_enabled |-> FALSE, _qr_enabled |-> TRUE]
    /\ camera = ScriptedCamera(50, 5, 40)

SpecE2E ==
    /\ InitE2E
    /\ [][\/ MgrStart \/ CapOpen \/ CapRead \/ CapSmooth \/ CapEmit \/ OnFrameReady]_vars

\* --------------------------------------------- the classifier left enabled
\* The pipeline as MainWindow starts it (classifier on), nothing toggled and
\* no marker in view: the capture loop feeds the worker every
\* ROBOFLOW_FRAME_INTERVAL-th frame and the client answers as it may.
InitClassifier ==
    /\ InitFields
    /\ smoother = NewSmoother(PipelinePersistence, DefaultAlpha)
    /\ mgr = [_worker |-> FALSE, _roboflow_enabled |-> TRUE, _qr_enabled |-> TRUE]
    /\ camera = ScriptedCamera(MaxClassifierFrames, 1, 0)

SpecClassifier ==
    /\ InitClassifier
    /\ [][\/ MgrStart \/ CapOpen \/ CapRead \/ CapSmooth
          \/ CapOffer \/ CapReadDetected \/ CapReadBbox
          \/ Classifier
          \/ OnFrameReady]_vars

\* ------------------------------------------------- the camera may fail
\* The pipeline with a camera that may fail to open, fail a read, or show a
\* marker the decoder raises on; the classifier is left disabled, as
\* CameraManager constructs it; the caller may stop the pipeline.
SpecCamera ==
    /\ InitCamera
    /\ [][\/ MgrStart \/ MgrStop \/ MgrStopped
          \/ CapOpen \/ CapOpenFail
          \/ CapRead \/ CapReadFail \/ CapDecodeRaise
          \/ CapSmooth \/ CapEmit
          \/ CapRelease
          \/ OnFrameReady]_vars

\* ------------------------------------------------ stopping the pipeline
\* The pipeline with the classifier enabled, stopped by the caller at any
\* moment.  The classifier worker is a thread of its own that the host
\* keeps scheduling: a step of it that stays possible is eventually taken.
SpecStop ==
    /\ Init
    /\ [][\/ MgrStart \/ MgrStop \/ MgrStopped
          \/ CapOpen \/ CapRead \/ CapSmooth
          \/ CapOffer \/ CapReadDetected \/ CapReadBbox
          \/ CapRelease
          \/ Classifier
          \/ OnFrameReady]_vars
    /\ WF_vars(Classifier)

\* ------------------------------------------------------ stop, then start
\* The pipeline with the classifier enabled, stopped and started again.
InitRestart ==
    /\ InitFields
    /\ smoother = NewSmoother(PipelinePersistence, DefaultAlpha)
    /\ mgr = [_worker |-> FALSE, _roboflow_enabled |-> TRUE, _qr_enabled |-> TRUE,
              base |-> 0]
    /\ camera = AnyCamera

SpecRestart ==
    /\ InitRestart
    /\ [][\/ MgrStart \/ MgrStop \/ MgrStopped \/ MgrRestart
          \/ CapOpen \/ CapRead \/ CapSmooth
          \/ CapOffer \/ CapReadDetected \/ CapReadBbox
          \/ CapRelease
          \/ Classifier
          \/ OnFrameReady]_vars

\* ------------------------------------------------- the manager's lifecycle
\* CameraManager.start while self._worker is not None: return.  mgr.ignored
\* records where the capture thread was at the last such call.
MgrStartAgain ==
    /\ ui.pc = "idle"
    /\ mgr._worker
    /\ Work + 3 <= MaxWork
    /\ events' = events + 1
    /\ mgr' = [mgr EXCEPT !.ignored = cap.pc]
    /\ UNCHANGED <<smoother, workerFields, clsState, locks, cap, wrk, ui,
                   windowFields, nframes, sm, camera, client, peripherals, error_occurred>>

\* CameraManager.smoothing_alpha (the getter), times AlphaDen.
smoothing_alpha ==
    IF mgr._worker THEN smoother.smoothing_alpha ELSE DefaultAlpha

\* CameraManager as constructed (classifier disabled), driven through
\* start(), stop() and the alpha setter in any order, over a camera that
\* may fail.
InitManager ==
    /\ InitFields
    /\ smoother = NewSmoother(PipelinePersistence, DefaultAlpha)
    /\ mgr = [_worker |-> FALSE, _roboflow_enabled |-> FALSE, _qr_enabled |-> TRUE,
              base |-> 0, ignored |-> "never"]
    /\ camera = AnyCamera

SpecManager ==
    /\ InitManager
    /\ [][\/ MgrStart \/ MgrStartAgain \/ MgrStop \/ MgrStopped \/ MgrRestart
          \/ \E value \in AlphaInputs : MgrSetAlpha(value)
          \/ CapOpen \/ CapOpenFail
          \/ CapRead \/ CapReadFail
          \/ CapSmooth \/ CapEmit
          \/ CapRelease
          \/ OnFrameReady]_vars

\* CameraManager as MainWindow.__init__ leaves it (constructed, then
\* roboflow_enabled = True), started, stopped and started again while the
\* two enable flags are written at any moment.
SpecFlags ==
    /\ InitRestart
    /\ [][\/ MgrStart \/ MgrStop \/ MgrStopped \/ MgrRestart
          \/ \E value \in BOOLEAN : SetRoboflowEnabled(value)
          \/ UiClearDetected \/ UiClearBbox \/ UiClearCount
          \/ \E value \in BOOLEAN : SetQrEnabled(value)
          \/ Capture
          \/ Classifier
          \/ OnFrameReady]_vars

\* ------------------------------------------------------ distance_sensor.py
\* DistanceSensor.start, called by any owner of the sensor at any moment:
\* nothing if self.running; else the flag is set and a new reader thread is
\* created, kept in self.thread and started.
SensorStart ==
    /\ sensor.pc = "idle"
    /\ sensor.readers[MaxReaders] = "unborn"
    /\ sensor' =
          IF sensor.running
          THEN sensor
          ELSE LET t == CHOOSE u \in 1..MaxReaders :
                          /\ sensor.readers[u] = "unborn"
                          /\ \A v \in 1..(u - 1) : sensor.readers[v] # "unborn"
               IN [sensor EXCEPT !.running = TRUE, !.thread = t,
                                 !.readers[t] = "open"]
    /\ UNCHANGED <<cameraVars, windowFields, tracking, viz>>

\* DistanceSensor.stop, called by any owner of the sensor at any moment: the
\* flag is cleared; with a thread, join(timeout=1.0) is entered.
SensorStop ==
    /\ sensor.pc = "idle"
    /\ sensor' = [sensor EXCEPT
                    !.running = FALSE,
                    !.pc = IF sensor.thread # 0 THEN "join" ELSE "idle"]
    /\ UNCHANGED <<cameraVars, windowFields, tracking, viz>>

\* MainWindow.__init__: self._distance_sensor.start(), the program's only
\* call of start(), on the sensor just constructed.
WindowInit ==
    /\ sensor.window = "new"
    /\ sensor' = [sensor EXCEPT !.running = TRUE, !.thread = 1,
                                !.readers[1] = "open", !.window = "shown"]
    /\ UNCHANGED <<cameraVars, windowFields, tracking, viz>>

\* MainWindow.closeEvent: self._distance_sensor.stop(), the program's only
\* call of stop().
CloseEvent ==
    /\ sensor.window = "shown"
    /\ sensor.pc = "idle"
    /\ sensor' = [sensor EXCEPT
                    !.running = FALSE,
                    !.pc = IF sensor.thread # 0 THEN "join" ELSE "idle",
                    !.window = "closed"]
    /\ UNCHANGED <<cameraVars, windowFields, tracking, viz>>

\* join returns, the thread having ended or the second having passed;
\* self.thread = None.
SensorJoin ==
    /\ sensor.pc = "join"
    /\ sensor' = [sensor EXCEPT
                    !.pc = "idle", !.thread = 0,
                    !.join_timed_out =
                        sensor.readers[sensor.thread] \notin {"unborn", "dead"}]
    /\ UNCHANGED <<cameraVars, windowFields, tracking, viz>>

\* _read_loop: serial.Serial(...) opens the port; or it raises
\* SerialException: error_occurred is emitted (no slot is connected to it),
\* self.running = False, return.
ReadLoopOpen(t, opened) ==
    /\ sensor.readers[t] = "open"
    /\ sensor' = IF opened
                 THEN [sensor EXCEPT !.readers[t] = "test"]
                 ELSE [sensor EXCEPT !.readers[t] = "dead", !.running = FALSE]
    /\ UNCHANGED <<cameraVars, windowFields, tracking, viz>>

\* while self.running: into read_until; or out of the loop, ser.close() and
\* the thread ends.
ReadLoopTest(t) ==
    /\ sensor.readers[t] = "test"
    /\ sensor' = [sensor EXCEPT
                    !.readers[t] = IF sensor.running THEN "read" ELSE "dead"]
    /\ UNCHANGED <<cameraVars, windowFields, tracking, viz>>

\* read_until returns nothing, or read_basic_mode returns None (continue), or
\* either raises (printed, time.sleep(1)): back to the loop test.
ReadLoopSkip(t) ==
    /\ sensor.readers[t] = "read"
    /\ sensor' = [sensor EXCEPT !.readers[t] = "test", !.skipped = TRUE]
    /\ UNCHANGED <<cameraVars, windowFields, tracking, viz>>

\* A frame is read and parsed: distance = target_values[5] and
\* self.window_buffer.append(distance), a deque(maxlen=window_size).
ReadLoopAppend(t, distance) ==
    /\ sensor.readers[t] = "read"
    /\ Len(sensor.raw) < MaxReadings
    /\ sensor' = [sensor EXCEPT
                    !.readers[t] = "filter",
                    !.raw = Append(@, distance),
                    !.window_buffer =
                        IF Len(@) = window_size
                        THEN Append(Tail(@), distance)
                        ELSE Append(@, distance)]
    /\ UNCHANGED <<cameraVars, windowFields, tracking, viz>>

\* Mutant of ReadLoopEmit: the newest reading is emitted unfiltered.
ReadLoopEmit_raw(t) ==
    /\ sensor.readers[t] = "filter"
    /\ sensor' = [sensor EXCEPT
                    !.readers[t] = "test",
                    !.emitted = Append(@, sensor.window_buffer[Len(sensor.window_buffer)])]
    /\ UNCHANGED <<cameraVars, windowFields, tracking, viz>>

\* filtered_val = min(self.window_buffer); distance_updated.emit(filtered_val),
\* queued for the main thread.
ReadLoopEmit(t) ==
    /\ sensor.readers[t] = "filter"
    /\ LET window == {sensor.window_buffer[i] : i \in DOMAIN sensor.window_buffer}
           filtered_val == CHOOSE m \in window : \A x \in window : m <= x
       IN sensor' = [sensor EXCEPT !.readers[t] = "test",
                                   !.emitted = Append(@, filtered_val)]
    /\ UNCHANGED <<cameraVars, windowFields, tracking, viz>>

\* MainWindow._on_distance_updated for the oldest queued distance_updated.
DeliverDistance ==
    /\ sensor.pc = "idle"
    /\ sensor.taken < Len(sensor.emitted)
    /\ _current_distance' = sensor.emitted[sensor.taken + 1]
    /\ distance_seen' = TRUE
    /\ sensor' = [sensor EXCEPT !.taken = @ + 1]
    /\ UNCHANGED <<cameraVars, pending, _distance_threshold, safety_banner,
                   delivered, tracking, viz>>

\* The sensor as the program runs it: started when the window is built and
\* stopped when it closes, while the serial port delivers frames, some of
\* them empty or unparsable.
SpecSensor ==
    /\ Init
    /\ [][\/ WindowInit \/ CloseEvent \/ SensorJoin
          \/ \E t \in 1..MaxReaders :
               \/ (\E opened \in BOOLEAN : ReadLoopOpen(t, opened))
               \/ ReadLoopTest(t)
               \/ ReadLoopSkip(t) \/ ReadLoopEmit(t)
               \/ \E distance \in {10, 20, 30} : ReadLoopAppend(t, distance)
          \/ DeliverDistance]_vars

\* A DistanceSensor whose owner calls start() and stop() in any order.
SpecSensorApi ==
    /\ Init
    /\ [][\/ SensorStart \/ SensorStop \/ SensorJoin
          \/ \E t \in 1..MaxReaders :
               \/ (\E opened \in BOOLEAN : ReadLoopOpen(t, opened))
               \/ ReadLoopTest(t)
               \/ ReadLoopSkip(t) \/ ReadLoopEmit(t)
               \/ \E distance \in {10, 20} : ReadLoopAppend(t, distance)
          \/ DeliverDistance]_vars

\* --------------------------------------------------- visualize_tracking.py
\* create_visualization, for one row of the log: the row continues when the
\* distance is over 150 or both detections are set, and robot_stops is the
\* inverse of that (np.invert).
robot_stops(distance, robot_detected, qr_detected) ==
    ~((distance > 150) \/ (robot_detected /\ qr_detected))

\* main(): load_tracking_data reads the rows (int(row['distance_cm']),
\* row[...] == 'True') and create_visualization computes robot_stops over
\* them.
CreateVisualization ==
    /\ ~viz.drawn
    /\ viz' = [viz EXCEPT !.drawn = TRUE, !.robot_stops =
                 [i \in DOMAIN viz.csv |->
                    robot_stops(viz.csv[i].distance_cm,
                                viz.csv[i].robot_detected = "True",
                                viz.csv[i].qr_detected = "True")]]
    /\ UNCHANGED <<cameraVars, windowFields, sensor, tracking>>

\* The visualizer is given a log of up to MaxRows rows as _save_data writes
\* them: the distance in digits, the two flags as 'True' or 'False'.
InitVisualizer ==
    /\ InitWorkerFields
    /\ client = RoboflowClient(JNull, J("str", "rf_key"))
    /\ sensor = DistanceSensor
    /\ tracking = TrackingButton(TargetFrames)
    /\ smoother = NewSmoother(PipelinePersistence, DefaultAlpha)
    /\ mgr = [_worker |-> FALSE, _roboflow_enabled |-> TRUE, _qr_enabled |-> TRUE]
    /\ camera = AnyCamera
    /\ \E n \in 1..MaxRows :
         \E csv \in [1..n -> [distance_cm : {100, 149, 150, 151},
                              robot_detected : {"True", "False"},
                              qr_detected : {"True", "False"}]] :
            viz = [csv |-> csv, robot_stops |-> <<>>, drawn |-> FALSE]

SpecVisualizer == InitVisualizer /\ [][CreateVisualization]_vars

\* ------------------------------------------------------------- tracking
\* TrackingButton._on_click
TrackingClick ==
    /\ ui.pc = "idle"
    /\ Work + 3 <= MaxWork
    /\ events' = events + 1
    /\ tracking' = IF tracking._is_tracking
                   THEN stop_tracking(tracking)
                   ELSE start_tracking(tracking)
    /\ UNCHANGED <<smoother, mgr, workerFields, clsState, locks, cap, wrk, ui,
                   windowFields, nframes, sm, camera, client, sensor, viz,
                   error_occurred>>

\* The pipeline, classifier disabled, before a window whose tracking button
\* is clicked at any moment while distance readings arrive.
InitTracking ==
    /\ InitWorkerFields
    /\ client = RoboflowClient(JNull, J("str", "rf_key"))
    /\ sensor = DistanceSensor
    /\ viz = None
    /\ \E target_frames \in 1..MaxTarget : tracking = TrackingButton(target_frames)
    /\ smoother = NewSmoother(PipelinePersistence, DefaultAlpha)
    /\ mgr = [_worker |-> FALSE, _roboflow_enabled |-> FALSE, _qr_enabled |-> TRUE]
    /\ camera = AnyCamera

SpecTracking ==
    /\ InitTracking
    /\ [][\/ MgrStart \/ CapOpen \/ CapRead \/ CapSmooth \/ CapEmit
          \/ OnFrameReady
          \/ TrackingClick
          \/ \E distance \in {100, 200} : OnDistanceUpdated(distance)]_vars

\* ------------------------------------------------------------ properties
\* C1. When the distance override does not apply (distance <= threshold at
\* delivery, which includes "no reading yet"), the decision for a frame is
\* (marker detected AND classifier detected) if the classifier was enabled
\* for that frame and (marker detected) if it was not; it is never true
\* when the marker is not detected.  Stated for every frame record waiting
\* for delivery and for the decision shown for the frame last delivered.
C1_GateWithoutOverride ==
    /\ \A i \in 1..Len(pending) :
         LET fd == pending[i] IN
           /\ fd.robot_detected = (fd.detection # None)
           /\ fd.can_continue_moving =
                (IF fd.roboflow_enabled
                 THEN fd.robot_detected /\ fd.classification_detected
                 ELSE fd.robot_detected)
           /\ fd.can_continue_moving => fd.robot_detected
    /\ (delivered # None /\ delivered.distance <= delivered.threshold) =>
         LET fd == delivered.frame_data IN
           /\ safety_banner =
                (IF fd.roboflow_enabled
                 THEN fd.robot_detected /\ fd.classification_detected
                 ELSE fd.robot_detected)
           /\ safety_banner => fd.robot_detected

\* A frame with the classifier enabled, marker and classifier both detected,
\* delivered without override: the decision is true.
C1_Witness ==
    /\ delivered # None
    /\ delivered.distance <= delivered.threshold
    /\ delivered.frame_data.roboflow_enabled
    /\ delivered.frame_data.robot_detected
    /\ delivered.frame_data.classification_detected
    /\ safety_banner

\* C2. Whenever the most recent distance reading is strictly greater than
\* the threshold when a frame is delivered, the decision delivered is true,
\* whatever the frame says; before any reading has arrived the stored
\* distance is not above the threshold and the decision delivered is the
\* frame's own.
C2_DistanceOverride ==
    /\ (delivered # None /\ delivered.distance > delivered.threshold) => safety_banner
    /\ ~distance_seen =>
         /\ ~(_current_distance > _distance_threshold)
         /\ delivered # None => safety_banner = delivered.frame_data.can_continue_moving

\* Distance 200 over threshold 100, marker and classifier both not detected:
\* the decision delivered is true.
C2_Witness ==
    /\ delivered # None
    /\ delivered.distance = 200
    /\ delivered.threshold = 100
    /\ ~delivered.frame_data.robot_detected
    /\ ~delivered.frame_data.classification_detected
    /\ safety_banner

\* C3 as the claim states it: the can_continue_moving field of every frame
\* record the capture loop publishes is true whenever the most recent
\* distance reading exceeds the threshold, and otherwise follows the
\* marker/classifier rule.
C3_PublishedFieldIsFullGate ==
    [][Len(pending') > Len(pending) =>
         LET fd == pending'[Len(pending')] IN
           fd.can_continue_moving =
             (IF _current_distance > _distance_threshold
              THEN TRUE
              ELSE IF fd.roboflow_enabled
                   THEN fd.robot_detected /\ fd.classification_detected
                   ELSE fd.robot_detected)]_vars

\* C3, amended: the field published by the capture loop follows the
\* marker/classifier rule alone, whatever the distance; the distance is
\* applied by the consumer (_on_frame_ready), whose decision is true if the
\* distance at delivery exceeds the threshold and the published field
\* otherwise.
C3_PublishedFieldIsVisionGate ==
    /\ \A i \in 1..Len(pending) :
         pending[i].can_continue_moving =
           (IF pending[i].roboflow_enabled
            THEN pending[i].robot_detected /\ pending[i].classification_detected
            ELSE pending[i].robot_detected)
    /\ delivered # None =>
         /\ delivered.frame_data.can_continue_moving =
              (IF delivered.frame_data.roboflow_enabled
               THEN delivered.frame_data.robot_detected
                    /\ delivered.frame_data.classification_detected
               ELSE delivered.frame_data.robot_detected)
         /\ safety_banner =
              (IF delivered.distance > delivered.threshold
               THEN TRUE
               ELSE delivered.frame_data.can_continue_moving)

\* A frame record published with the field false while the last reading
\* is above the threshold.
C3_Witness ==
    /\ pending # <<>>
    /\ distance_seen
    /\ _current_distance > _distance_threshold
    /\ ~Head(pending).can_continue_moving

C6_DropOnBusy ==
    /\ [](Len(_roboflow_queue) <= QueueMaxSize)
    /\ [](cap.pc = "offer" => ENABLED CapOffer)
    /\ [][CapOffer =>
            /\ _roboflow_queue # <<>> => _roboflow_queue' = _roboflow_queue
            /\ wrk.frame # None => wrk'.frame = wrk.frame]_vars

\* The capture thread has just offered a frame on the stride while an
\* earlier frame still sat in the slot: the earlier frame is the one queued.
C6_Witness ==
    /\ cap.pc = "read_detected"
    /\ _roboflow_frame_counter = 0
    /\ _roboflow_queue # <<>>
    /\ Head(_roboflow_queue) # None
    /\ Head(_roboflow_queue).id < cap.frame

\* C7 as the claim states it: when the disable toggle has run, the shared
\* classifier state is detected = false, box = empty, counter = 0, whatever
\* the worker is doing; and every frame record of an iteration that saw the
\* classifier disabled has classifier_detected false, no box, and the
\* decision equal to marker-detected.
C7_DisableResets ==
    /\ [](\A i \in 1..Len(pending) :
            ~pending[i].roboflow_enabled =>
              /\ ~pending[i].classification_detected
              /\ pending[i].classification_bbox = None
              /\ pending[i].can_continue_moving = pending[i].robot_detected)
    /\ [][UiClearCount =>
            /\ _classification_detected' = FALSE
            /\ _classification_bbox' = None
            /\ _frames_without_classification' = 0]_vars

\* C8 as the claim states it: once the disable toggle has run, the shared
\* detected flag is not one set by the result of a frame handed over before
\* the disable, and no capture pass begun after the disable (which is then
\* after a re-enable) reads such a detection into its frame record.
C8_NoStaleDetection ==
    /\ (ui.pc = "idle" /\ _classification_detected) => ~cls_stale
    /\ (cap.pc = "read_bbox" /\ ~cap.pre_disable) => ~cap.stale

\* C9 as the claim states it: the worker's result update, the capture
\* loop's snapshot read and the disable toggle's reset are never inside
\* their access sections at the same time.
C9_MutualExclusion ==
    LET InWorker == wrk.pc \in {"set_count", "set_bbox", "count_write", "compare",
                               "clear_detected", "clear_bbox"}
        InCapture == cap.pc = "read_bbox"
        InToggle == ui.pc \in {"clear_detected", "clear_bbox", "clear_count"}
    IN /\ ~(InWorker /\ InCapture)
       /\ ~(InWorker /\ InToggle)
       /\ ~(InCapture /\ InToggle)

\* C10 as the claim states it: every frame record published with
\* qr_enabled false carries no marker detection, and while marker
\* detection is disabled the smoother stays cleared.
C10_DisabledMarkerStaysCleared ==
    /\ \A i \in 1..Len(pending) :
         ~pending[i].qr_enabled =>
           /\ ~pending[i].robot_detected
           /\ pending[i].detection = None
           /\ ~pending[i].can_continue_moving
    /\ (mgr._worker /\ ~_qr_enabled) =>
         /\ smoother.smoothed_box = None
         /\ smoother.last_payload = NoneStr

C13_DecoderFailureTolerated ==
    /\ [](cap.pc # "aborted")
    /\ [][(cap.pc = "loop" /\ nframes' = nframes + 1)
            => (cap'.pc = "smooth" /\ cap'.frame = nframes')]_vars

\* A step of the capture loop that stays at the loop (or leaves it by break)
\* without having read a frame: cap.read() failed.
FailedRead ==
    /\ cap.pc = "loop"
    /\ cap'.pc \in {"loop", "exit"}
    /\ cap' # cap

\* C14: a failed read publishes nothing and adds one to the count of
\* consecutive failures, which a successful read resets to zero; while the
\* count is at most 30 the failure is skipped without a fault event and the
\* loop goes on; the fault event is emitted exactly when the count exceeds
\* 30 (the 31st failure in a row), and then the loop is left: nothing is
\* read or published any more and the only step left is the release.
C14_ReadFailureBudget ==
    /\ [][FailedRead =>
            /\ cap'.frames_failed = cap.frames_failed + 1
            /\ pending' = pending
            /\ nframes' = nframes
            /\ IF cap'.frames_failed > 30
               THEN error_occurred' = error_occurred + 1 /\ cap'.pc = "exit"
               ELSE error_occurred' = error_occurred /\ cap'.pc = "loop"]_vars
    /\ [][(cap.pc = "loop" /\ nframes' = nframes + 1) => cap'.frames_failed = 0]_vars
    /\ [][cap.pc = "exit" =>
            /\ cap'.pc \in {"exit", "done"}
            /\ nframes' = nframes
            /\ Len(pending') <= Len(pending)
            /\ error_occurred' = error_occurred]_vars
    /\ [](cap.pc = "loop" => cap.frames_failed <= 30)
    /\ [](cap.pc = "exit" <=> cap.frames_failed = 31)

\* The 31st failure in a row, after frames were read and published, has
\* raised the fault and left the loop.
C14_Witness ==
    /\ cap.pc = "exit"
    /\ cap.frames_failed = 31
    /\ error_occurred = 1
    /\ nframes >= 2
    /\ delivered # None

\* run() returned because none of the open attempts gave a readable camera.
OpenFailed ==
    cap.pc = "done" /\ cap.attempt = 5

\* C15: a run emits at most one fault event; the event is emitted only by
\* the 5th failed open attempt or by the read failure that exceeds the
\* budget of 30; after a failed open nothing was or will be published; and
\* once the fault event is out, no frame is read, no FrameData is published
\* and run() ends with the camera handle released.
C15_SingleFault ==
    /\ [](error_occurred <= 1)
    /\ [][error_occurred' # error_occurred =>
            /\ error_occurred' = error_occurred + 1
            /\ \/ cap.pc = "open" /\ cap.attempt = 4 /\ cap'.pc = "done"
               \/ cap.pc = "loop" /\ cap.frames_failed = 30 /\ cap'.pc = "exit"]_vars
    /\ [](OpenFailed => (error_occurred = 1 /\ nframes = 0 /\ pending = <<>> /\ delivered = None))
    /\ [][OpenFailed => (cap' = cap /\ pending' = pending /\ nframes' = nframes)]_vars
    /\ [](error_occurred >= 1 => cap.pc \in {"exit", "done"})
    /\ [][error_occurred >= 1 =>
            /\ Len(pending') <= Len(pending)
            /\ nframes' = nframes
            /\ error_occurred' = error_occurred]_vars
    /\ []((error_occurred >= 1 /\ cap.pc = "done") => cap.handle = "released")
    /\ [](cap.pc = "exit" => cap.handle = "open")

\* The camera failed to open five times: the fault is out, nothing was
\* published and the handle is released.
C15_Witness ==
    /\ OpenFailed
    /\ error_occurred = 1
    /\ cap.handle = "released"
    /\ pending = <<>>

\* The capture number of the last FrameData handed to the main thread, and
\* of the last one published (delivered or still queued); 0 before the first.
LastDelivered ==
    IF delivered = None THEN 0 ELSE delivered.frame_data.frame

LastPublished ==
    IF pending = <<>> THEN LastDelivered ELSE pending[Len(pending)].frame

\* The capture thread is between the read of a frame and its emit.
InPass ==
    cap.pc \in {"smooth", "offer", "read_detected", "read_bbox", "emit"}

\* C18: the FrameData events are published in capture order, one per frame
\* read: the queued events carry consecutive capture numbers that follow the
\* last delivered one, a publication is always that of the frame read last,
\* a failed read publishes nothing, and whenever the capture thread is not
\* in the middle of a frame's pass every frame read so far has been
\* published (the k-th published event is the k-th frame read, none skipped).
C18_CaptureOrder ==
    /\ [](\A i \in 1..(Len(pending) - 1) : pending[i + 1].frame = pending[i].frame + 1)
    /\ [](pending # <<>> => Head(pending).frame = LastDelivered + 1)
    /\ [][Len(pending') > Len(pending) =>
            /\ pending' = Append(pending, pending'[Len(pending')])
            /\ pending'[Len(pending')].frame = nframes
            /\ LastPublished = nframes - 1]_vars
    /\ [][FailedRead => pending' = pending]_vars
    /\ [](InPass => (cap.frame = nframes /\ LastPublished = nframes - 1))
    /\ [](~InPass => LastPublished = nframes)

\* C16: once stop() has cleared the running flag and waits for run(), the
\* capture loop observes the flag cleared at its next test and exits: the
\* flag is not set again while stop() waits (also when stop() came while
\* the camera was still being opened), and from the top of the loop no
\* further frame is read: the only step from there is the exit, which
\* releases the handle and lets stop() return.
C16_StopObserved ==
    /\ [][(ui.pc = "wait" /\ ~_running) => ~_running']_vars
    /\ [][(ui.pc = "wait" /\ cap.pc = "loop" /\ cap' # cap) =>
            (cap'.pc = "done" /\ cap'.handle = "released")]_vars

\* The worker takes a frame from the queue and begins a classifier call.
BeginsCall ==
    wrk.pc = "get" /\ wrk'.pc = "call"

\* C17: once the capture loop has exited, a classifier worker that was
\* started terminates, with or without the sentinel in the queue: the
\* thread flag is cleared and nothing is put in the queue any more, a call
\* in flight runs to its end, a further call begins only by taking the one
\* frame still queued, after which the queue stays empty (so at most one
\* further call), a get on the empty queue times out, and the worker ends.
C17_WorkerTerminates ==
    /\ (cap.pc = "done") ~> (wrk.pc \in {"none", "dead"})
    /\ [](cap.pc = "done" => (~_roboflow_thread_running /\ Len(_roboflow_queue) <= 1))
    /\ [][cap.pc = "done" => Len(_roboflow_queue') <= Len(_roboflow_queue)]_vars
    /\ [][(cap.pc = "done" /\ BeginsCall) => _roboflow_queue' = <<>>]_vars
    /\ [][(cap.pc = "done" /\ wrk.pc = "top" /\ wrk' # wrk) => wrk'.pc = "dead"]_vars
    /\ [][(cap.pc = "done" /\ wrk.pc \in {"none", "dead"}) => wrk'.pc = wrk.pc]_vars

\* The capture loop has exited while a frame was in the queue, so the
\* sentinel was dropped (it would otherwise be in the queue now); the worker
\* has taken that frame and is in the one further call.
C17_Witness ==
    /\ cap.pc = "done"
    /\ ~_roboflow_thread_running
    /\ wrk.pc = "call"
    /\ _roboflow_queue = <<>>

\* start() after a stop(): the manager holds a worker again and run() of a
\* later run is entered.
Restarted ==
    cap.pc = "done" /\ cap'.pc = "open"

\* The capture thread publishes the first frame of a run that follows a
\* stop().
PublishesFirstOfRerun ==
    /\ Len(pending') > Len(pending)
    /\ mgr.base > 0
    /\ cap.frame = mgr.base + 1

\* C19: nothing of the detection state survives stop() followed by start():
\* right after the start the smoother is empty (no box, no payload, miss
\* counter 0) and the classifier state is detected = false, no box, both
\* counters 0 and an empty queue; and the first FrameData of the new run
\* reports a marker only if the decoder saw it on that very frame, and
\* reports no classifier detection and no classifier box.
C19_FreshAfterRestart ==
    /\ [][Restarted =>
            /\ smoother'.smoothed_box = None
            /\ smoother'.last_payload = NoneStr
            /\ smoother'.frames_without_detection = 0
            /\ ~_classification_detected'
            /\ _classification_bbox' = None
            /\ _frames_without_classification' = 0
            /\ _roboflow_frame_counter' = 0
            /\ _roboflow_queue' = <<>>]_vars
    /\ [][PublishesFirstOfRerun =>
            LET frame_data == pending'[Len(pending')] IN
            /\ frame_data.frame = mgr.base + 1
            /\ frame_data.robot_detected <=> (cap.detection # None)
            /\ frame_data.robot_detected => frame_data.detection = cap.detection
            /\ ~frame_data.classification_detected
            /\ frame_data.classification_bbox = None
            /\ ~frame_data.can_continue_moving]_vars

\* The last frame delivered from the first run reported both the marker and
\* the classifier detection; after stop() and start() the first frame of
\* the new run shows no marker and is about to be published.
C19_Witness ==
    /\ mgr.base > 0
    /\ delivered # None
    /\ delivered.frame_data.frame = mgr.base
    /\ delivered.frame_data.robot_detected
    /\ delivered.frame_data.classification_detected
    /\ cap.pc = "read_bbox"
    /\ cap.frame = mgr.base + 1
    /\ cap.detection = None

\* The values tried on the setter: from -1.0 to 2.0 in hundredths.
AlphaRange == (0 - AlphaDen)..(AlphaDen + AlphaDen)

\* value clamped to [0, 1], written out case by case.
Clamped(value) ==
    IF value < 0 THEN 0 ELSE IF value > AlphaDen THEN AlphaDen ELSE value

\* C20: the alpha setter stores 0 for a value below 0, 1 for a value above
\* 1 and the value itself otherwise; so alpha lies in [0, 1] in every
\* reachable state, and every change of alpha, through the smoother, the
\* worker or the manager, stores the clamped value of what was passed.
C20_AlphaClamped ==
    /\ [](\A value \in AlphaRange :
            set_alpha(smoother, value).smoothing_alpha = Clamped(value))
    /\ [](smoother.smoothing_alpha >= 0 /\ smoother.smoothing_alpha <= AlphaDen)
    /\ [][smoother'.smoothing_alpha # smoother.smoothing_alpha =>
            \E value \in AlphaInputs : smoother'.smoothing_alpha = Clamped(value)]_vars

\* A value above 1 was passed while the pipeline ran: alpha is 1, and the
\* smoother blends with it.
C20_Witness ==
    /\ smoother.smoothing_alpha = AlphaDen
    /\ smoother.smoothed_box # None
    /\ mgr._worker
    /\ cap.pc = "smooth"
    /\ cap.detection # None

\* out is alpha * new + (1 - alpha) * old, alpha in hundredths.
IsEma(alpha, new, old, out) ==
    out * AlphaDen = alpha * new + (AlphaDen - alpha) * old

\* out_box is what update() must return for new_box on smoother s: the raw
\* box when s holds none, else the moving average in every coordinate.
IsSmoothed(s, new_box, out_box) ==
    IF s.smoothed_box = None
    THEN out_box = new_box
    ELSE /\ IsEma(s.smoothing_alpha, new_box.x, s.smoothed_box.x, out_box.x)
         /\ IsEma(s.smoothing_alpha, new_box.y, s.smoothed_box.y, out_box.y)
         /\ IsEma(s.smoothing_alpha, new_box.width, s.smoothed_box.width, out_box.width)
         /\ IsEma(s.smoothing_alpha, new_box.height, s.smoothed_box.height, out_box.height)

\* C23: update() with a detection sets frames_without_detection to 0,
\* records the payload and returns that payload with the box
\* alpha * new + (1 - alpha) * previous per coordinate, or the raw box when
\* no smoothed box is held; the box returned is the box the smoother keeps,
\* and it is the box a following update(None) within the window returns.
C23_UpdateWithDetection ==
    /\ [](\A payload \in SmootherPayloads, bounding_box \in SmootherBoxes :
            Exact(smoother, bounding_box) =>
              LET r == update(smoother, DetectedQR(payload, bounding_box)) IN
              /\ r.s.frames_without_detection = 0
              /\ r.s.last_payload = payload
              /\ r.ret.payload = payload
              /\ IsSmoothed(smoother, bounding_box, r.ret.bounding_box)
              /\ r.s.smoothed_box = r.ret.bounding_box
              /\ r.s.persistence_frames > 1 =>
                   update(r.s, None).ret = r.ret)
    /\ [][nframes' # nframes =>
            /\ smoother'.frames_without_detection = 0
            /\ sm'.ret # None
            /\ smoother'.last_payload = sm'.ret.payload
            /\ smoother'.smoothed_box = sm'.ret.bounding_box
            /\ \E bounding_box \in SmootherBoxes :
                 IsSmoothed(smoother, bounding_box, sm'.ret.bounding_box)]_vars

\* A detection has just been blended with alpha = 0.5 into a held box that
\* differs from it: the box returned is neither raw box.
C23_Witness ==
    /\ sm.k = 0
    /\ smoother.smoothing_alpha = 50
    /\ smoother.frames_without_detection = 0
    /\ smoother.last_payload = "OTHER"
    /\ sm.ret.bounding_box = smoother.smoothed_box
    /\ smoother.smoothed_box.x = 3 * Unit

\* No detection has occurred since construction or the last reset()
\* (sm.k < 0), or since the persistence window was last exceeded (at least
\* one miss, and at least persistence_frames misses, since the detection).
Cleared ==
    sm.k < 0 \/ (sm.k >= 1 /\ sm.k >= smoother.persistence_frames)

\* C24: once the persistence window is exceeded, and after reset(), the
\* smoother holds neither box nor payload; as long as no detection has come
\* since, update(None) returns nothing; and the first detection after that
\* is returned, and stored, as its raw box.  Between a detection and the
\* expiry the box is held.
C24_ClearedState ==
    /\ [](Cleared => (smoother.smoothed_box = None /\ smoother.last_payload = NoneStr))
    /\ [](~Cleared => (smoother.smoothed_box # None /\ smoother.last_payload # NoneStr))
    /\ [](Cleared => (/\ update(smoother, None).ret = None
                      /\ update(smoother, None).s.smoothed_box = None
                      /\ update(smoother, None).s.last_payload = NoneStr))
    /\ [](reset(smoother).smoothed_box = None /\ reset(smoother).last_payload = NoneStr)
    /\ [][(Cleared /\ sm' # sm /\ nframes' = nframes) => (Cleared' /\ sm'.ret = None)]_vars
    /\ [][(Cleared /\ nframes' # nframes) =>
            /\ sm'.ret # None
            /\ sm'.ret.bounding_box \in SmootherBoxes
            /\ smoother'.smoothed_box = sm'.ret.bounding_box
            /\ smoother'.last_payload = sm'.ret.payload]_vars

\* The window has just been exceeded: a blended box that was held through
\* the earlier misses is dropped and nothing is returned.
C24_Witness ==
    /\ sm.k >= 2
    /\ sm.k = smoother.persistence_frames
    /\ sm.last # None
    /\ sm.last.bounding_box \notin SmootherBoxes
    /\ sm.ret = None
    /\ smoother.smoothed_box = None
    /\ smoother.last_payload = NoneStr

\* The positions of the pairs of `decoded` whose payload is the target
\* string, and what the detector is to return for `decoded`: the first of
\* them, each of left, top, width and height doubled; nothing without one.
Matches(decoded) ==
    {i \in 1..Len(decoded) : decoded[i].data = "ROBOT_R1"}

FirstMatch(decoded) ==
    decoded[CHOOSE i \in Matches(decoded) : \A j \in Matches(decoded) : i <= j]

ExpectedDetection(decoded) ==
    IF Matches(decoded) = {}
    THEN None
    ELSE DetectedQR("ROBOT_R1",
                    PixelBox(2 * FirstMatch(decoded).rect.left,
                             2 * FirstMatch(decoded).rect.top,
                             2 * FirstMatch(decoded).rect.width,
                             2 * FirstMatch(decoded).rect.height))

\* C25: for every frame read, the marker detector returns the first pair,
\* in decoder order, whose payload is exactly the target string, whatever
\* pairs without the target payload come before or after it, with its
\* rectangle multiplied by 2, and nothing when no payload matches; and it
\* changes nothing but the capture thread's locals.
C25_FirstMatch ==
    [][(cap.pc = "loop" /\ nframes' = nframes + 1) =>
         /\ cap'.pc = "smooth"
         /\ cap'.detection = ExpectedDetection(camera.decoded)
         /\ UNCHANGED <<smoother, mgr, workerFields, clsState, locks, wrk, ui,
                        windowFields, camera, client, peripherals>>]_vars

\* The worker is inside `with self._roboflow_result_lock:`.
InUpdateSection ==
    wrk.pc \in {"set_count", "set_bbox", "count_write", "compare",
                "clear_detected", "clear_bbox"}

\* C26: the worker holds the result lock exactly while it is inside its
\* update section, never while it waits for a frame or while the classifier
\* call is in progress; the call begins and ends without the lock changing
\* hands; so when the capture loop comes to read the latest result during a
\* call, the lock is free.
C26_NoLockAcrossCall ==
    /\ [](_roboflow_result_lock = "wrk" <=> InUpdateSection)
    /\ [](wrk.pc \in {"get", "call", "update"} => _roboflow_result_lock # "wrk")
    /\ [][(wrk.pc = "call" \/ wrk'.pc = "call") =>
            (_roboflow_result_lock' # "wrk" /\ _roboflow_result_lock # "wrk")]_vars
    /\ []((cap.pc = "read_detected" /\ wrk.pc = "call") => _roboflow_result_lock = "free")

\* The capture loop is reading the latest result, holding the lock, while a
\* classifier call is in progress.
C26_Witness ==
    /\ wrk.pc = "call"
    /\ cap.pc = "read_bbox"
    /\ _roboflow_result_lock = "cap"

\* C27: with the classifier enabled for the pass, the capture loop counts
\* the frame and offers it to the worker exactly when it is the 3rd since
\* the last offer: the counter goes to 0 on every offer, whether the queue
\* took the frame or was full and dropped it, and to counter + 1 otherwise,
\* leaving the queue alone; a pass that saw the classifier disabled, and
\* every other step, leaves the counter alone; and 0 <= counter < 3 always.
C27_Stride ==
    /\ [](_roboflow_frame_counter >= 0 /\ _roboflow_frame_counter < 3)
    /\ [][cap.pc = "offer" /\ cap'.pc # "offer" =>
            IF _roboflow_frame_counter = 2
            THEN /\ _roboflow_frame_counter' = 0
                 /\ IF _roboflow_queue = <<>>
                    THEN /\ Len(_roboflow_queue') = 1
                         /\ _roboflow_queue'[1].id = cap.frame
                    ELSE _roboflow_queue' = _roboflow_queue
            ELSE /\ _roboflow_frame_counter' = _roboflow_frame_counter + 1
                 /\ _roboflow_queue' = _roboflow_queue]_vars
    /\ [][cap.pc # "offer" => _roboflow_frame_counter' = _roboflow_frame_counter]_vars
    /\ [][(cap.pc = "smooth" /\ cap'.pc # "smooth") =>
            (cap'.pc = "offer" <=> _roboflow_enabled)]_vars

\* The 6th frame was offered while the 3rd was still in the queue: it was
\* dropped and the counter is back at 0.
C27_Witness ==
    /\ cap.pc = "read_detected"
    /\ cap.frame = 6
    /\ _roboflow_frame_counter = 0
    /\ _roboflow_queue # <<>>
    /\ _roboflow_queue[1].id = 3

\* C28: the classifier worker thread is started only by a pass of the
\* capture loop that saw the classifier enabled, and only when no worker
\* thread is alive; a pass that finds one alive leaves it alone; and a
\* worker that is alive stays alive, through disable and enable toggles,
\* until the capture loop has exited.
C28_OneLazyWorker ==
    /\ [][(wrk.pc \in {"none", "dead"} /\ wrk'.pc \notin {"none", "dead"}) =>
            /\ cap.pc = "offer"
            /\ cap.roboflow_enabled
            /\ wrk'.pc = "top"
            /\ _roboflow_thread_running']_vars
    /\ [][(cap.pc = "offer" /\ cap'.pc # "offer" /\ ThreadAlive) =>
            (wrk' = wrk /\ _roboflow_thread_running' = _roboflow_thread_running)]_vars
    /\ [][(ThreadAlive /\ ~ThreadAlive') => cap.pc = "done"]_vars
    /\ []((ThreadAlive /\ cap.pc # "done") => _roboflow_thread_running)
    /\ [](nframes = 0 => wrk.pc = "none")

\* The worker, started by an earlier pass, waits for a frame while the
\* classifier is disabled and the capture loop publishes a frame of a pass
\* that saw it disabled.
C28_Witness ==
    /\ wrk.pc = "get"
    /\ ~_roboflow_enabled
    /\ cap.pc = "emit"
    /\ ~cap.roboflow_enabled
    /\ _roboflow_thread_running

\* C29: in every published frame result the classifier box is present
\* exactly when classification_detected is true.
C29_BoxIffDetected ==
    /\ \A i \in 1..Len(pending) :
          (pending[i].classification_bbox # None) <=> pending[i].classification_detected
    /\ delivered # None =>
          ((delivered.frame_data.classification_bbox # None)
              <=> delivered.frame_data.classification_detected)

\* The body is what the service documents: an object whose "outputs", when
\* present, is a list of objects, whose "predictions" is an object, whose
\* "predictions" is a list of objects with a str class and numeric fields.
NumericFields(pred) ==
    \A key \in {"confidence", "x", "y", "width", "height"} \cap DOMAIN pred.v :
        pred.v[key].t = "num"

WellFormedPrediction(pred) ==
    /\ pred.t = "dict"
    /\ "class" \in DOMAIN pred.v => pred.v["class"].t = "str"
    /\ NumericFields(pred)

WellFormedPredictions(data) ==
    /\ data.t = "dict"
    /\ "predictions" \in DOMAIN data.v =>
          /\ data.v["predictions"].t = "list"
          /\ \A i \in DOMAIN data.v["predictions"].v :
                WellFormedPrediction(data.v["predictions"].v[i])

WellFormedOutput(output) ==
    /\ output.t = "dict"
    /\ "predictions" \in DOMAIN output.v => WellFormedPredictions(output.v["predictions"])

WellFormed(body) ==
    /\ body.t = "dict"
    /\ "outputs" \in DOMAIN body.v =>
          /\ body.v["outputs"].t = "list"
          /\ \A i \in DOMAIN body.v["outputs"].v : WellFormedOutput(body.v["outputs"].v[i])

\* The request failed, was answered with a status outside 200..299, or was
\* answered with a malformed body.
Faulty(exchange) ==
    \/ exchange.transport # "response"
    \/ exchange.status_code \notin 200..299
    \/ ~WellFormed(exchange.body)

\* C22: detect never raises; on a timeout, another request error, a non-2xx
\* response, a malformed body or a missing API key it returns detected =
\* false and no detection, and with a missing key no request is ever sent.
C22_NeverRaises ==
    client.last # None =>
        /\ client.last.ret # Raised
        /\ (~Truthy(client.api_key) \/ Faulty(client.last.exchange)) =>
              client.last.ret = NoDetection
        /\ ~Truthy(client.api_key) => client.posts = 0

\* The last update blended the box fed into a box held before.
Blended == sm # SmIdle /\ sm.prev # None

Abs(n) == IF n < 0 THEN -n ELSE n

Dist(a, b) == Abs(a - b)

C39_BoxIffPayload ==
    /\ []((smoother.smoothed_box # None) <=> (smoother.last_payload # NoneStr))
    /\ [][(\E payload \in SmootherPayloads, bounding_box \in SmootherBoxes :
              SmDetect(payload, bounding_box))
            => smoother'.frames_without_detection = 0]_vars
    /\ [][SmReset => smoother'.frames_without_detection = 0]_vars

\* A reset has emptied a smoother that held a box and had counted misses.
C39_Witness ==
    /\ sm = SmIdle
    /\ nframes >= 1
    /\ smoother.smoothed_box = None
    /\ smoother.last_payload = NoneStr
    /\ smoother.frames_without_detection = 0
    /\ smoother.persistence_frames >= 2

\* C32: start() never creates a second worker while a worker object exists:
\* no capture thread is started in a step that begins with a worker; once
\* run() has returned, capture resumes only in a start() that finds no
\* worker, and the worker is dropped only by stop().
C32_NoSecondWorker ==
    /\ [][mgr._worker => ~(cap'.pc = "open" /\ cap.pc # "open")]_vars
    /\ [][MgrStartAgain => UNCHANGED <<smoother, workerFields, clsState, cap, wrk>>]_vars
    /\ [][cap.pc = "done" /\ cap'.pc # "done"
            => ui.pc = "idle" /\ ~mgr._worker /\ mgr'._worker]_vars
    /\ [][mgr._worker /\ ~mgr'._worker => ui.pc = "wait" /\ ui'.pc = "idle"]_vars

\* The capture loop has exited on a fault, start() was called after that and
\* the worker is still the one that failed.
C32_Witness ==
    /\ mgr._worker
    /\ cap.pc = "done"
    /\ error_occurred >= 1
    /\ mgr.ignored = "done"
    /\ ui.pc = "idle"

\* C33: whenever a worker exists the manager's stored enable flags equal the
\* worker's, and a start() hands the stored flags to the new worker before
\* it has read a frame.
C33_FlagsKept ==
    /\ [](mgr._worker => /\ _roboflow_enabled = mgr._roboflow_enabled
                         /\ _qr_enabled = mgr._qr_enabled)
    /\ [][~mgr._worker /\ mgr'._worker
            => /\ cap'.pc = "open"
               /\ _roboflow_enabled' = mgr._roboflow_enabled
               /\ _qr_enabled' = mgr._qr_enabled
               /\ mgr'._roboflow_enabled = mgr._roboflow_enabled
               /\ mgr'._qr_enabled = mgr._qr_enabled]_vars
    /\ [][~mgr._worker /\ ~mgr'._worker
            => UNCHANGED <<_roboflow_enabled, _qr_enabled>>]_vars

\* A second worker, not yet at its first frame, runs with the marker flag
\* that was cleared earlier.
C33_Witness ==
    /\ mgr._worker
    /\ cap.pc = "open"
    /\ mgr.base >= 1
    /\ ~_qr_enabled
    /\ ~mgr._qr_enabled
    /\ _roboflow_enabled

\* C34: with no worker the manager's alpha getter returns 0.6 whatever was
\* assigned, and every start() begins a run with alpha 0.6.
C34_AlphaNotRetained ==
    /\ [](~mgr._worker => smoothing_alpha = DefaultAlpha)
    /\ [][~mgr._worker /\ mgr'._worker
            => smoother'.smoothing_alpha = DefaultAlpha]_vars
    /\ [][~mgr._worker /\ ~mgr'._worker
            => smoothing_alpha' = DefaultAlpha]_vars

\* A run whose alpha was changed has been stopped: the getter is back at
\* 0.6 while the stopped worker's smoother still holds the other value.
C34_Witness ==
    /\ ~mgr._worker
    /\ cap.pc = "done"
    /\ ui.pc = "idle"
    /\ nframes >= 1
    /\ smoother.smoothing_alpha # DefaultAlpha
    /\ smoothing_alpha = DefaultAlpha

\* The minimum of the window_size readings of raw that end with the k-th.
WindowMin(raw, k) ==
    LET window == {raw[i] : i \in Max(1, k - window_size + 1)..k}
    IN CHOOSE m \in window : \A x \in window : m <= x

\* C35: the k-th value the sensor emits is the minimum of the window ending
\* with the k-th parsed reading, every parsed reading is followed by its
\* emission, an empty or unparsable input emits nothing, and the consumer
\* holds the emitted value it handled last.
C35_SlidingMinimum ==
    /\ [](/\ Len(sensor.emitted) <= Len(sensor.raw)
          /\ (\A t \in 1..MaxReaders : sensor.readers[t] # "filter")
                => Len(sensor.emitted) = Len(sensor.raw)
          /\ \A k \in 1..Len(sensor.emitted) :
                sensor.emitted[k] = WindowMin(sensor.raw, k)
          /\ sensor.taken >= 1 => _current_distance = sensor.emitted[sensor.taken])
    /\ [][(\E t \in 1..MaxReaders : ReadLoopSkip(t))
            => sensor'.emitted = sensor.emitted]_vars

\* More readings than the window holds have been emitted and handled, an
\* input was skipped, and the minimum rose when a small reading left the
\* window.
C35_Witness ==
    /\ Len(sensor.emitted) > window_size
    /\ sensor.emitted[Len(sensor.emitted)] > sensor.emitted[window_size]
    /\ sensor.skipped
    /\ sensor.taken = Len(sensor.emitted)
    /\ _current_distance = sensor.emitted[Len(sensor.emitted)]

\* C36: at most one reader thread is alive at any time.
C36_OneReader ==
    Cardinality({t \in 1..MaxReaders :
                    sensor.readers[t] \notin {"unborn", "dead"}}) <= 1

\* C37: a row is marked 'robot stops' exactly when its distance is below 150
\* and neither the robot nor the QR code is detected.
C37_StopsRule ==
    (viz # None /\ viz.drawn) =>
        \A i \in DOMAIN viz.csv :
            viz.robot_stops[i] = (/\ viz.csv[i].distance_cm < 150
                                  /\ viz.csv[i].robot_detected # "True"
                                  /\ viz.csv[i].qr_detected # "True")

\* C38: the rows of a session carry the indices 0, 1, 2, ... in order and
\* are never more than target_frames; each frame handled while tracking adds
\* one row, and the target_frames-th row ends the session and saves the
\* rows; a frame handled while not tracking changes nothing; a session
\* starts with no rows and index 0.
C38_TrackingSession ==
    /\ [](/\ Len(tracking._data) <= tracking._target_frames
          /\ tracking._current_frame = Len(tracking._data)
          /\ \A i \in 1..Len(tracking._data) : tracking._data[i].frame = i - 1
          /\ tracking._is_tracking => Len(tracking._data) < tracking._target_frames)
    /\ [][(OnFrameReady /\ tracking._is_tracking)
            => /\ tracking'._data = Append(tracking._data, tracking'._data[Len(tracking'._data)])
               /\ tracking'._is_tracking = (Len(tracking'._data) < tracking._target_frames)
               /\ tracking'.saved = IF tracking'._is_tracking
                                    THEN tracking.saved
                                    ELSE Append(tracking.saved, tracking'._data)]_vars
    /\ [][(OnFrameReady /\ ~tracking._is_tracking) => UNCHANGED tracking]_vars
    /\ [][(~tracking._is_tracking /\ tracking'._is_tracking)
            => tracking'._data = <<>> /\ tracking'._current_frame = 0]_vars

\* A second session, begun after one that ended by itself at its target,
\* has recorded a row.
C38_Witness ==
    /\ tracking._is_tracking
    /\ Len(tracking.saved) >= 1
    /\ Len(tracking.saved[1]) = tracking._target_frames
    /\ tracking._target_frames >= 2
    /\ Len(tracking._data) = 1

\* The predictions of a well-formed body, each with its class and confidence;
\* empty for any other body.
Candidates(body) ==
    IF /\ WellFormed(body)
       /\ "outputs" \in DOMAIN body.v
       /\ Len(body.v["outputs"].v) >= 1
       /\ "predictions" \in DOMAIN body.v["outputs"].v[1].v
       /\ "predictions" \in DOMAIN body.v["outputs"].v[1].v["predictions"].v
    THEN LET predictions == body.v["outputs"].v[1].v["predictions"].v["predictions"].v
         IN IF \A i \in DOMAIN predictions :
                  {"class", "confidence"} \subseteq DOMAIN predictions[i].v
            THEN predictions ELSE <<>>
    ELSE <<>>

\* C31: a result carries a detection exactly when detected is set, the
\* detection is of the target class, and among several target-class
\* predictions of a response the one returned has the highest confidence.
C31_BestDetection ==
    (client.last # None /\ client.last.ret # Raised) =>
        LET ret == client.last.ret
            exchange == client.last.exchange
            predictions == IF Faulty(exchange) \/ ~Truthy(client.api_key)
                           THEN <<>> ELSE Candidates(exchange.body)
            targets == {i \in DOMAIN predictions :
                          predictions[i].v["class"] = J("str", ROBOFLOW_TARGET_CLASS)}
        IN /\ ret.detected <=> ret.detection # None
           /\ ret.detected => ret.detection.class_name = J("str", ROBOFLOW_TARGET_CLASS)
           /\ targets # {} =>
                 /\ ret.detected
                 /\ \A i \in targets :
                       ret.detection.confidence.v >= predictions[i].v["confidence"].v

====
